---- MODULE Spec2Model ----
(***************************************************************************)
(* A model of the OMF parser: Phase 1 (Scanner, scanner.py) over the bytes *)
(* of a file, and Phase 2 (OMFFile.parse, file.py) over the scanned        *)
(* records with the record decoders that maintain the per-module tables.   *)
(*                                                                         *)
(* Bytes are naturals 0..255, byte strings are sequences of them, and a    *)
(* Python offset o addresses element o+1 of a sequence.  An Optional value *)
(* is a sequence: << >> for None and <<v>> for a present v.                *)
(***************************************************************************)
EXTENDS Integers, Sequences, FiniteSets, TLC

VARIABLES
    scanner,     \* the Scanner object and the position of scan() in its code
    omf,         \* the OMFFile context of Phase 2
    sub,         \* the cursor of the decoder that is running
    result,      \* the payload the running decoder is building
    ri,          \* the index in omf.records of the record parse() is at
    dispatched,  \* the indices of the records handed to _parse_record so far
    pc,          \* "scan" in Phase 1; in Phase 2 "dispatch", "loop" or "done"
    chunks       \* the chunks the input file is made of

vars == <<scanner, omf, sub, result, ri, dispatched, pc, chunks>>

-----------------------------------------------------------------------------
(* Bounds of the model.                                                    *)

\* The number of chunks (records, filler bytes, fragments) a scanned file is made of.
MaxChunks == 3

\* The number of records a file handed to Phase 2 is made of.
MaxParseChunks == 3

\* LINSYM line entries after which the model stops following a decoder loop.
MaxEntries == 6

-----------------------------------------------------------------------------
(* Record types (constants.py, RecordType) and other program constants.    *)

THEADR == 128
LHEADR == 130
COMENT == 136
MODEND == 138
MODEND32 == 139
EXTDEF == 140
LNAMES == 150
COMDEF == 176
LEXTDEF == 180
LEXTDEF2 == 181
LCOMDEF == 184
CEXTDEF == 188
REDATA == 114
PEDATA == 132
LINSYM == 196
LINSYM32 == 197
LLNAMES == 202
VENDEXT == 206
LIBHDR == 240
LIBEND == 241
TYPDEF == 142
SEGDEF == 152
SEGDEF32 == 153
GRPDEF == 154
FIXUPP == 156
FIXUPP32 == 157
LEDATA == 160
LEDATA32 == 161
LIDATA == 162
LIDATA32 == 163

\* TypdefLeaf
FAR == 97
NEAR == 98

\* SegdefFlags
ALIGN_SHIFT == 5
COMBINE_SHIFT == 2
ALIGN_MASK == 7
COMBINE_MASK == 7
BIG_MASK == 1
USE32_MASK == 1
ACCESS_TYPE_MASK == 3

\* GrpdefComponent
SEGMENT_INDEX == 255
EXTERNAL_INDEX == 254
SEGDEF_INDICES == 253
LTL == 251
ABSOLUTE == 250

\* RecordType members whose name ends in "32" (RecordType.is_32bit).
Is32BitTypes == {139, 145, 149, 153, 157, 161, 163, 179, 183, 195, 197, 201}

\* CommentClass.to_raw(CommentClass.EASY_OMF)
EASY_OMF_CLASS == 170

TWO_BYTE_FLAG == 128
HIGH_MASK == 127
MAX_1BYTE == 128
MARKER_2BYTE == 129
MARKER_3BYTE == 132
MARKER_4BYTE == 136
COMDEF_BORLAND_MAX == 95

\* FixuppFlags
IS_FIXUP == 128
LOC_TYPE_MASK == 15
LOC_TYPE_SHIFT == 2
THREAD_IS_FRAME == 64
THREAD_METHOD_SHIFT == 2
THREAD_METHOD_MASK == 7
THREAD_NUM_MASK == 3
F_BIT == 128
FRAME_SHIFT == 4
FRAME_MASK == 7
T_BIT == 8
P_BIT == 4
P_BIT_SHIFT == 2
TARGET_MASK == 3

\* U+FFFD, what decode('ascii', errors='replace') puts for a byte >= 0x80.
REPLACEMENT_CHAR == 65533

None == << >>
Some(v) == <<v>>

TIS_STANDARD == "TIS_STANDARD"
PHARLAP == "PHARLAP"
IBM_LINK386 == "IBM_LINK386"

-----------------------------------------------------------------------------
(* Byte-string helpers: Python slicing, sum(), struct.pack/unpack.         *)

Min(a, b) == IF a < b THEN a ELSE b

\* (b >> shift) & mask for a mask of the form 2^k - 1, and (b & flag) != 0 for
\* a flag of one bit.
Bits(b, shift, mask) == (b \div (2 ^ shift)) % (mask + 1)
HasBit(b, flag) == (b \div flag) % 2 = 1

\* data[a:b] for 0 <= a: a slice never raises, it is cut at the end.
Slice(data, a, b) == SubSeq(data, a + 1, Min(b, Len(data)))

RECURSIVE SumBytes(_)
SumBytes(s) == IF s = << >> THEN 0 ELSE Head(s) + SumBytes(Tail(s))

\* struct.unpack('<H', two bytes)
Unpack16(b) == b[1] + 256 * b[2]

\* struct.pack('<H', n)
Pack16(n) == <<n % 256, (n \div 256) % 256>>

RECURSIVE Concat(_)
Concat(ss) == IF ss = << >> THEN << >> ELSE Head(ss) \o Concat(Tail(ss))

\* bytes.decode('ascii', errors='ignore').lower()
LowerByte(b) == IF b >= 65 /\ b <= 90 THEN b + 32 ELSE b
IsAscii(b) == b < 128
DecodeIgnoreLower(bs) ==
    LET kept == SelectSeq(bs, IsAscii)
    IN  [i \in 1..Len(kept) |-> LowerByte(kept[i])]

\* pat in text
Contains(text, pat) ==
    \E i \in 0..(Len(text) - Len(pat)) : SubSeq(text, i + 1, i + Len(pat)) = pat

TxtPharlap == <<112, 104, 97, 114, 108, 97, 112>>
TxtPharLap == <<112, 104, 97, 114, 32, 108, 97, 112>>
TxtIbm == <<105, 98, 109>>
TxtLink386 == <<108, 105, 110, 107, 51, 56, 54>>
TxtBorland == <<98, 111, 114, 108, 97, 110, 100>>

-----------------------------------------------------------------------------
(* Phase 1: Scanner (scanner.py).                                          *)

\* Scanner.__init__
ScannerInit(data) ==
    [data |-> data, offset |-> 0, features |-> {}, variant |-> TIS_STANDARD,
     is_library |-> FALSE, has_32bit_records |-> FALSE, mixed_variants |-> FALSE,
     warnings |-> << >>, _module_variant |-> TIS_STANDARD, _seen_variants |-> {},
     _module_start_idx |-> 0, records |-> << >>, pc |-> "start"]

\* Scanner._validate_checksum
ValidateChecksumSkipless(record_data, checksum) == (SumBytes(record_data) % 256) = 0
_validate_checksum(record_data, checksum) ==
    IF checksum = 0 THEN TRUE ELSE (SumBytes(record_data) % 256) = 0

\* The two bounds checks of Scanner._read_record.
HeaderOverrun(offset, n) == offset + 3 > n
ContentOverrunLax(offset, rec_len, n) == offset + rec_len > n + 1
ContentOverrun(offset, rec_len, n) == offset + rec_len > n

\* Scanner._read_record: the record read (None on a structural fault) and the
\* scanner after it; the offset and the 32-bit flag it has set stay set on a fault.
_read_record(s) ==
    IF HeaderOverrun(s.offset, Len(s.data))
    THEN [rec |-> None, s |-> s]
    ELSE
    LET rec_offset == s.offset
        rec_type == s.data[s.offset + 1]
        s1 == [s EXCEPT !.offset = @ + 1,
                        !.has_32bit_records = @ \/ (rec_type \in Is32BitTypes)]
        rec_len == Unpack16(Slice(s.data, s1.offset, s1.offset + 2))
        s2 == [s1 EXCEPT !.offset = @ + 2]
    IN  IF ContentOverrun(s2.offset, rec_len, Len(s.data))
        THEN [rec |-> None, s |-> s2]
        ELSE
        LET raw_content == Slice(s.data, s2.offset, s2.offset + rec_len)
            s3 == [s2 EXCEPT !.offset = @ + rec_len]
            checksum == IF raw_content # << >> THEN raw_content[Len(raw_content)] ELSE 0
            content == IF raw_content # << >>
                       THEN SubSeq(raw_content, 1, Len(raw_content) - 1) ELSE << >>
            full_record == <<rec_type>> \o Pack16(rec_len) \o raw_content
        IN  IF rec_type \in {LIBHDR, LIBEND}
            THEN [rec |-> Some([type |-> rec_type, offset |-> rec_offset,
                                length |-> rec_len, content |-> raw_content,
                                checksum |-> None, checksum_valid |-> None,
                                module_variant |-> None]),
                  s |-> s3]
            ELSE [rec |-> Some([type |-> rec_type, offset |-> rec_offset,
                                length |-> rec_len, content |-> content,
                                checksum |-> Some(checksum),
                                checksum_valid |->
                                    Some(_validate_checksum(full_record, checksum)),
                                module_variant |-> None]),
                  s |-> s3]

\* Scanner._validate_easy_omf_placement: a warning names the record index.
_validate_easy_omf_placement(s, record_idx) ==
    IF record_idx # s._module_start_idx + 1
    THEN [s EXCEPT !.warnings = Append(@, record_idx)]
    ELSE s

\* Scanner._detect_coment_features
_detect_coment_features(s, record, record_idx) ==
    IF Len(record.content) < 2 THEN s
    ELSE
    LET comment_class == record.content[2]
        s1 == IF comment_class = EASY_OMF_CLASS
              THEN _validate_easy_omf_placement(
                       [s EXCEPT !.variant = PHARLAP, !._module_variant = PHARLAP,
                                 !.features = @ \cup {<<"easy_omf">>, <<"pharlap">>}],
                       record_idx)
              ELSE s
    IN  IF Len(record.content) > 2
        THEN LET text == DecodeIgnoreLower(Slice(record.content, 2, Len(record.content)))
             IN  IF Contains(text, TxtPharlap) \/ Contains(text, TxtPharLap)
                 THEN [s1 EXCEPT !.variant = IF @ = TIS_STANDARD THEN PHARLAP ELSE @,
                                 !._module_variant = PHARLAP]
                 ELSE IF Contains(text, TxtIbm) \/ Contains(text, TxtLink386)
                 THEN [s1 EXCEPT !.variant = IBM_LINK386,
                                 !._module_variant = IBM_LINK386]
                 ELSE IF Contains(text, TxtBorland)
                 THEN [s1 EXCEPT !.features = @ \cup {<<"borland">>}]
                 ELSE s1
        ELSE s1

\* Scanner._detect_vendext_features.  A feature tag is a tuple: <<"easy_omf">>,
\* and <<"vendext", N>> for the string vendext_N.
_detect_vendext_features(s, record) ==
    IF Len(record.content) >= 2
    THEN [s EXCEPT !.features = @ \cup {<<"vendext", Unpack16(Slice(record.content, 0, 2))>>}]
    ELSE s

\* Scanner._detect_features
_detect_features(s, record, record_idx) ==
    IF record.type = COMENT THEN _detect_coment_features(s, record, record_idx)
    ELSE IF record.type = VENDEXT THEN _detect_vendext_features(s, record)
    ELSE s

\* Scanner._finalize_module
_finalize_module(s, exclude_last) ==
    LET end_idx == IF exclude_last THEN Len(s.records) - 1 ELSE Len(s.records)
    IN  [s EXCEPT !.records = [i \in 1..Len(s.records) |->
                                  IF i - 1 >= s._module_start_idx /\ i - 1 < end_idx
                                  THEN [s.records[i] EXCEPT
                                            !.module_variant = Some(s._module_variant)]
                                  ELSE s.records[i]],
                  !._seen_variants = @ \cup {s._module_variant}]

\* Scanner._track_module_boundaries
TrackResetsAtModend(s, record) ==
    IF record.type \in {THEADR, LHEADR}
    THEN [_finalize_module(s, TRUE) EXCEPT !._module_start_idx = Len(s.records) - 1,
                                           !._module_variant = TIS_STANDARD]
    ELSE IF record.type \in {MODEND, MODEND32}
    THEN [_finalize_module(s, FALSE) EXCEPT !._module_variant = TIS_STANDARD]
    ELSE s
_track_module_boundaries(s, record) ==
    IF record.type \in {THEADR, LHEADR}
    THEN [_finalize_module(s, TRUE) EXCEPT !._module_start_idx = Len(s.records) - 1,
                                           !._module_variant = TIS_STANDARD]
    ELSE IF record.type \in {MODEND, MODEND32}
    THEN _finalize_module(s, FALSE)
    ELSE s

\* Scanner.scan, lines 79-85: what follows the loop.
ScanEpilogue(s) ==
    LET s1 == _finalize_module(s, FALSE)
        s2 == [s1 EXCEPT !._seen_variants = @ \cup {s1._module_variant}]
    IN  [s2 EXCEPT !.mixed_variants = @ \/ (s2.is_library /\ Cardinality(s2._seen_variants) > 1),
                   !.pc = "done"]

\* Scanner.scan, lines 54-60: an empty file returns at once.
ScanPrologue(s) ==
    IF s.data = << >> THEN [s EXCEPT !.pc = "done"]
    ELSE [s EXCEPT !.is_library = (s.data[1] = LIBHDR), !.pc = "loop"]

\* A filler test that passes over a zero byte in any file, library or not.
AtZeroByte(s) == s.offset < Len(s.data) /\ s.data[s.offset + 1] = 0

\* The loop test and the filler test of Scanner.scan, lines 62-63.
AtEnd(s) == ~(s.offset < Len(s.data))
AtFiller(s) == ~AtEnd(s) /\ s.is_library /\ s.data[s.offset + 1] = 0

\* Scanner.scan that reads on after a LIBEND record.
ScanRecordPastLibend(s) ==
    LET rr == _read_record(s)
    IN  IF rr.rec = None THEN ScanEpilogue(rr.s)
        ELSE LET record == rr.rec[1]
                 current_idx == Len(rr.s.records)
                 s1 == _detect_features(rr.s, record, current_idx)
                 s2 == [s1 EXCEPT !.records = Append(@, record)]
             IN  _track_module_boundaries(s2, record)

\* Scanner.scan, lines 67-77: one record read, or the break on a fault.
ScanRecordContinuesOnFault(s) ==
    LET rr == _read_record(s)
    IN  IF rr.rec = None THEN rr.s
        ELSE LET record == rr.rec[1]
                 current_idx == Len(rr.s.records)
                 s1 == _detect_features(rr.s, record, current_idx)
                 s2 == [s1 EXCEPT !.records = Append(@, record)]
                 s3 == _track_module_boundaries(s2, record)
             IN  IF record.type = LIBEND THEN ScanEpilogue(s3) ELSE s3
ScanRecord(s) ==
    LET rr == _read_record(s)
    IN  IF rr.rec = None THEN ScanEpilogue(rr.s)
        ELSE LET record == rr.rec[1]
                 current_idx == Len(rr.s.records)
                 s1 == _detect_features(rr.s, record, current_idx)
                 s2 == [s1 EXCEPT !.records = Append(@, record)]
                 s3 == _track_module_boundaries(s2, record)
             IN  IF record.type = LIBEND THEN ScanEpilogue(s3) ELSE s3

\* One step of Scanner.scan.
ScanStep(s) ==
    IF s.pc = "start" THEN ScanPrologue(s)
    ELSE IF AtEnd(s) THEN ScanEpilogue(s)
    ELSE IF AtFiller(s) THEN [s EXCEPT !.offset = @ + 1]
    ELSE ScanRecord(s)

\* Scanner.scan run to its return.
RECURSIVE ScanRun(_)
ScanRun(s) == IF s.pc = "done" THEN s ELSE ScanRun(ScanStep(s))

-----------------------------------------------------------------------------
(* The byte cursor: RecordParser (parsing.py).  A cursor is a record        *)
(* [data, offset, variant]; an operation yields its value v and the cursor  *)
(* p after it.                                                              *)

\* RecordParser.__init__
RecordParser(data, variant) == [data |-> data, offset |-> 0, variant |-> variant]

\* RecordParser.peek_byte
peek_byte(p) ==
    IF p.offset >= Len(p.data) THEN [v |-> None, p |-> p]
    ELSE [v |-> Some(p.data[p.offset + 1]), p |-> p]

\* RecordParser.bytes_remaining
bytes_remaining(p) == Len(p.data) - p.offset

\* RecordParser.read_byte
read_byte(p) ==
    IF p.offset >= Len(p.data) THEN [v |-> None, p |-> p]
    ELSE [v |-> Some(p.data[p.offset + 1]), p |-> [p EXCEPT !.offset = @ + 1]]

\* RecordParser.read_bytes without the test of line 37
ReadBytesUnchecked(p, n) ==
    [v |-> Some(Slice(p.data, p.offset, p.offset + n)), p |-> [p EXCEPT !.offset = @ + n]]

\* RecordParser.read_bytes
read_bytes(p, n) ==
    IF p.offset + n > Len(p.data) THEN [v |-> None, p |-> p]
    ELSE [v |-> Some(Slice(p.data, p.offset, p.offset + n)),
          p |-> [p EXCEPT !.offset = @ + n]]

\* RecordParser.parse_index
parse_index(p) ==
    LET r1 == read_byte(p)
    IN  IF r1.v = None THEN [v |-> 0, p |-> r1.p]
        ELSE IF r1.v[1] >= TWO_BYTE_FLAG
        THEN LET r2 == read_byte(r1.p)
             IN  IF r2.v = None THEN [v |-> 0, p |-> r2.p]
                 ELSE [v |-> (r1.v[1] % (HIGH_MASK + 1)) * 256 + r2.v[1], p |-> r2.p]
        ELSE [v |-> r1.v[1], p |-> r1.p]

\* bytes.decode('ascii', errors='replace'): a string is its code points.
DecodeReplace(raw) ==
    [i \in 1..Len(raw) |-> IF raw[i] < 128 THEN raw[i] ELSE REPLACEMENT_CHAR]

\* RecordParser.parse_name
parse_name(p) ==
    LET r1 == read_byte(p)
    IN  IF r1.v = None \/ r1.v = Some(0) THEN [v |-> << >>, p |-> r1.p]
        ELSE LET r2 == read_bytes(r1.p, r1.v[1])
             IN  IF r2.v = None THEN [v |-> << >>, p |-> r2.p]
                 ELSE [v |-> DecodeReplace(r2.v[1]), p |-> r2.p]

\* struct.unpack of a little-endian unsigned integer.
RECURSIVE UnpackLE(_)
UnpackLE(raw) == IF raw = << >> THEN 0 ELSE Head(raw) + 256 * UnpackLE(Tail(raw))

\* RecordParser.parse_numeric (little-endian; size_bytes in 1..4)
parse_numeric(p, size_bytes) ==
    LET r == read_bytes(p, size_bytes)
    IN  IF r.v = None \/ r.v = Some(<< >>) THEN [v |-> 0, p |-> r.p]
        ELSE IF size_bytes \in 1..4 THEN [v |-> UnpackLE(r.v[1]), p |-> r.p]
        ELSE [v |-> 0, p |-> r.p]

\* RecordParser.parse_variable_length_int
parse_variable_length_int(p) ==
    LET r == read_byte(p)
    IN  IF r.v = None THEN [v |-> 0, p |-> r.p]
        ELSE IF r.v[1] <= MAX_1BYTE THEN [v |-> r.v[1], p |-> r.p]
        ELSE IF r.v[1] = MARKER_2BYTE THEN parse_numeric(r.p, 2)
        ELSE IF r.v[1] = MARKER_3BYTE THEN parse_numeric(r.p, 3)
        ELSE IF r.v[1] = MARKER_4BYTE THEN parse_numeric(r.p, 4)
        ELSE [v |-> r.v[1], p |-> r.p]

\* The width of the record alone, whatever the variant.
OffsetFieldSizeOfRecord(variant, is_32bit) == IF is_32bit THEN 4 ELSE 2

\* Variant.offset_field_size / PharLapVariant.offset_field_size
offset_field_size(variant, is_32bit) ==
    IF variant = PHARLAP THEN 4 ELSE IF is_32bit THEN 4 ELSE 2

\* Variant.lidata_repeat_count_size / PharLapVariant.lidata_repeat_count_size
lidata_repeat_count_size(variant, is_32bit) ==
    IF variant = PHARLAP THEN 2 ELSE IF is_32bit THEN 4 ELSE 2

\* RecordParser.get_offset_field_size / RecordParser.get_lidata_repeat_count_size
get_offset_field_size(p, is_32bit) == offset_field_size(p.variant, is_32bit)
get_lidata_repeat_count_size(p, is_32bit) == lidata_repeat_count_size(p.variant, is_32bit)

\* Variant.segdef_has_access_byte / PharLapVariant.segdef_has_access_byte
segdef_has_access_byte(variant) == variant = PHARLAP

\* Variant.linsym_uses_inline_name / IBMVariant.linsym_uses_inline_name
linsym_uses_inline_name(variant) == variant = IBM_LINK386

-----------------------------------------------------------------------------
(* Phase 2: the file context, OMFFile (file.py).                            *)

\* Strings are sequences of code points.
Str_null == <<60, 110, 117, 108, 108, 62>>            \* "<null>"
Str_LName == <<76, 78, 97, 109, 101, 35>>             \* "LName#"
Str_reserved == <<32, 91, 82, 69, 83, 69, 82, 86, 69, 68, 93>>  \* " [RESERVED]"
RESERVED_SEGMENTS ==
    {<<36, 36, 84, 89, 80, 69, 83>>, <<36, 36, 83, 89, 77, 66, 79, 76, 83>>,
     <<36, 36, 73, 77, 80, 79, 82, 84>>}

\* str(n) for n >= 0
RECURSIVE Decimal(_)
Decimal(n) == IF n < 10 THEN <<48 + n>> ELSE Append(Decimal(n \div 10), 48 + (n % 10))

\* OMFFile.__init__ followed by OMFFile.scan: the context Phase 2 starts from.
OMFFile(s) ==
    [records |-> s.records, variant |-> s.variant, features |-> s.features,
     is_library |-> s.is_library,
     lnames |-> <<Str_null>>, segdefs |-> <<Str_null>>, grpdefs |-> <<Str_null>>,
     extdefs |-> <<Str_null>>, typdefs |-> <<Str_null>>,
     last_data_record |-> None,
     lib_page_size |-> 0, lib_dict_offset |-> 0, lib_dict_blocks |-> 0,
     warnings |-> << >>, errors |-> << >>]

\* OMFFile.make_parser
make_parser(o, record) == RecordParser(record.content, o.variant)

\* OMFFile.get_lname (index is never None here)
get_lname(o, index) ==
    IF 0 <= index /\ index < Len(o.lnames)
    THEN LET name == o.lnames[index + 1]
         IN  IF name \in RESERVED_SEGMENTS
             THEN <<39>> \o name \o <<39>> \o Str_reserved
             ELSE <<39>> \o name \o <<39>>
    ELSE Str_LName \o Decimal(index) \o <<40, 63, 41>>

Str_Seg == <<83, 101, 103, 35>>                       \* "Seg#"
Str_Grp == <<71, 114, 112, 35>>                       \* "Grp#"
Str_Ext == <<69, 120, 116, 35>>                       \* "Ext#"
Str_Type == <<84, 121, 112, 101, 35>>                 \* "Type#"
Str_FLAT == <<70, 76, 65, 84>>                        \* "FLAT"

\* OMFFile.get_segdef (index is never None here)
get_segdef(o, index) ==
    IF 0 <= index /\ index < Len(o.segdefs) THEN o.segdefs[index + 1]
    ELSE Str_Seg \o Decimal(index)

\* OMFFile.get_grpdef (index is never None here)
get_grpdef(o, index) ==
    IF 0 <= index /\ index < Len(o.grpdefs) THEN o.grpdefs[index + 1]
    ELSE Str_Grp \o Decimal(index)

\* OMFFile.get_extdef
get_extdef(o, index) ==
    IF 0 <= index /\ index < Len(o.extdefs) THEN <<39>> \o o.extdefs[index + 1] \o <<39>>
    ELSE Str_Ext \o Decimal(index)

\* OMFFile.get_typdef
get_typdef(o, index) ==
    IF 0 <= index /\ index < Len(o.typdefs) THEN o.typdefs[index + 1]
    ELSE Str_Type \o Decimal(index)

\* OMFFile.add_warning / OMFFile.add_error
add_warning(o, message) == [o EXCEPT !.warnings = Append(@, message)]
add_error(o, message) == [o EXCEPT !.errors = Append(@, message)]

\* The registry the decorators build (records/__init__.py, omf_record): for a
\* record type of the input files of Phase 2, its handlers in registration order.
OMF_RECORD_HANDLERS(rec_type) ==
    IF rec_type \in {THEADR, LHEADR} THEN <<[handler |-> "handle_theadr", features |-> {}]>>
    ELSE IF rec_type \in {LNAMES, LLNAMES} THEN <<[handler |-> "handle_lnames", features |-> {}]>>
    ELSE IF rec_type \in {EXTDEF, LEXTDEF, LEXTDEF2} THEN <<[handler |-> "handle_extdef", features |-> {}]>>
    ELSE IF rec_type = CEXTDEF THEN <<[handler |-> "handle_cextdef", features |-> {}]>>
    ELSE IF rec_type \in {COMDEF, LCOMDEF} THEN <<[handler |-> "handle_comdef", features |-> {}]>>
    ELSE IF rec_type \in {LINSYM, LINSYM32} THEN <<[handler |-> "handle_linsym", features |-> {}]>>
    ELSE IF rec_type = COMENT THEN <<[handler |-> "handle_coment", features |-> {}]>>
    ELSE IF rec_type = LIBHDR THEN <<[handler |-> "handle_libhdr", features |-> {}]>>
    ELSE IF rec_type = GRPDEF THEN <<[handler |-> "handle_grpdef", features |-> {}]>>
    ELSE IF rec_type \in {SEGDEF, SEGDEF32} THEN <<[handler |-> "handle_segdef", features |-> {}]>>
    ELSE IF rec_type = TYPDEF THEN <<[handler |-> "handle_typdef", features |-> {}]>>
    ELSE IF rec_type \in {REDATA, PEDATA}
    THEN <<[handler |-> "handle_redata_pedata", features |-> {}]>>
    ELSE IF rec_type \in {LEDATA, LEDATA32} THEN <<[handler |-> "handle_ledata", features |-> {}]>>
    ELSE IF rec_type \in {LIDATA, LIDATA32} THEN <<[handler |-> "handle_lidata", features |-> {}]>>
    ELSE IF rec_type \in {FIXUPP, FIXUPP32} THEN <<[handler |-> "handle_fixupp", features |-> {}]>>
    ELSE << >>

\* The first of the handlers whose features are active, however much it
\* requires.
FirstMatchingHandler(handlers, active_features) ==
    LET IsMatching(h) == h.features \subseteq active_features
        matching == SelectSeq(handlers, IsMatching)
    IN  IF matching = << >> THEN None ELSE Some(matching[1].handler)

\* get_record_handler, lines 53-62, and get_coment_handler, lines 75-84: of the
\* handlers whose features are active, the first of those that require the
\* most (a stable sort by descending size).
most_specific_handler(handlers, active_features) ==
    LET IsMatching(h) == h.features \subseteq active_features
        matching == SelectSeq(handlers, IsMatching)
    IN  IF matching = << >> THEN None
        ELSE LET best == CHOOSE i \in 1..Len(matching) :
                            /\ \A j \in 1..Len(matching) :
                                   Cardinality(matching[j].features)
                                       <= Cardinality(matching[i].features)
                            /\ \A j \in 1..(i - 1) :
                                   Cardinality(matching[j].features)
                                       < Cardinality(matching[i].features)
             IN  Some(matching[best].handler)

\* get_record_handler
get_record_handler(rec_type, active_features) ==
    most_specific_handler(OMF_RECORD_HANDLERS(rec_type), active_features)

-----------------------------------------------------------------------------
(* Record decoders (records/*.py).  A decoder without a loop is an operator *)
(* from the context o and the record to the context, cursor p and payload   *)
(* res after it; a decoder with a loop is its code before the loop and one  *)
(* operator for the loop body, whose exit is "next" (back to the loop       *)
(* test), "break" or "raise".                                               *)

\* handle_theadr
HandleTheadrKeepsExtdefs(o, record) ==
    LET o1 == [o EXCEPT !.lnames = <<Str_null>>, !.segdefs = <<Str_null>>,
                        !.grpdefs = <<Str_null>>, !.typdefs = <<Str_null>>]
        name == parse_name(make_parser(o1, record))
    IN  [o |-> o1, p |-> name.p, exit |-> "return",
         res |-> [record_name |-> IF record.type = THEADR THEN "THEADR" ELSE "LHEADR",
                  module_name |-> name.v]]
handle_theadr(o, record) ==
    LET o1 == [o EXCEPT !.lnames = <<Str_null>>, !.segdefs = <<Str_null>>,
                        !.grpdefs = <<Str_null>>, !.extdefs = <<Str_null>>,
                        !.typdefs = <<Str_null>>]
        name == parse_name(make_parser(o1, record))
    IN  [o |-> o1, p |-> name.p, exit |-> "return",
         res |-> [record_name |-> IF record.type = THEADR THEN "THEADR" ELSE "LHEADR",
                  module_name |-> name.v]]

\* A decoder that numbers the names of every record from 1, whatever the
\* table holds.
LnamesNumberedFromOne(o, record) ==
    [o |-> o, p |-> make_parser(o, record), exit |-> "loop",
     res |-> [record_name |-> IF record.type = LNAMES THEN "LNAMES" ELSE "LLNAMES (Local)",
              start_index |-> 1, end_index |-> Len(o.lnames) - 1,
              names |-> << >>]]

\* handle_lnames, lines 15-19: up to the loop.
handle_lnames(o, record) ==
    [o |-> o, p |-> make_parser(o, record), exit |-> "loop",
     res |-> [record_name |-> IF record.type = LNAMES THEN "LNAMES" ELSE "LLNAMES (Local)",
              start_index |-> Len(o.lnames), end_index |-> Len(o.lnames) - 1,
              names |-> << >>]]

\* handle_lnames, lines 20-27: the loop body (end_index as at a return here).
handle_lnames_body(o, p, res) ==
    LET name == parse_name(p)
        o1 == [o EXCEPT !.lnames = Append(@, name.v)]
        idx == Len(o1.lnames) - 1
    IN  [o |-> o1, p |-> name.p, exit |-> "next",
         res |-> [res EXCEPT !.names = Append(@, <<idx, name.v, name.v \in RESERVED_SEGMENTS>>),
                             !.end_index = Len(o1.lnames) - 1]]

\* handle_grpdef, line 15: the name the group enters the table with.
grpdef_raw_name(o, name_idx) ==
    IF name_idx < Len(o.lnames) THEN o.lnames[name_idx + 1] ELSE << >>

\* handle_grpdef, lines 73-75: after the loop.
handle_grpdef_end(o, p, res) ==
    [o |-> [o EXCEPT !.grpdefs = Append(@, grpdef_raw_name(o, res.name_index))],
     p |-> p, exit |-> "return", res |-> res]

\* handle_grpdef, lines 11-23: up to the loop, and to the return when the
\* content ends with the name index.
handle_grpdef(o, record) ==
    LET name_idx == parse_index(make_parser(o, record))
        res == [name |-> get_lname(o, name_idx.v), name_index |-> name_idx.v,
                is_flat |-> grpdef_raw_name(o, name_idx.v) = Str_FLAT,
                components |-> << >>, warnings |-> << >>]
    IN  IF bytes_remaining(name_idx.p) > 0
        THEN [o |-> o, p |-> name_idx.p, exit |-> "loop", res |-> res]
        ELSE handle_grpdef_end(o, name_idx.p, res)

\* handle_grpdef, lines 24-71: the loop body, and lines 73-75 when the loop
\* ends with it.  A component is its kind, the name in it and the numbers in it.
handle_grpdef_body(o, p, res) ==
    LET comp_type == read_byte(p)
        With(kind, text, nums) ==
            [res EXCEPT !.components = Append(@, [kind |-> kind, text |-> text, nums |-> nums])]
        Next_(pp, r) ==
            IF bytes_remaining(pp) > 0 THEN [o |-> o, p |-> pp, exit |-> "next", res |-> r]
            ELSE handle_grpdef_end(o, pp, r)
        Break_(pp, r) == handle_grpdef_end(o, pp, r)
    IN  IF comp_type.v = None THEN Break_(comp_type.p, res)
        ELSE
        LET ct == comp_type.v[1]
            q == comp_type.p
        IN  IF ct = SEGMENT_INDEX
            THEN IF bytes_remaining(q) > 0
                 THEN LET seg_idx == parse_index(q)
                      IN  Next_(seg_idx.p, With("Seg", get_segdef(o, seg_idx.v), << >>))
                 ELSE Break_(q, With("Seg:TRUNCATED", << >>, << >>))
            ELSE IF ct = EXTERNAL_INDEX
            THEN IF bytes_remaining(q) > 0
                 THEN LET ext_idx == parse_index(q)
                      IN  Next_(ext_idx.p, With("Ext", get_extdef(o, ext_idx.v), << >>))
                 ELSE Break_(q, With("Ext:TRUNCATED", << >>, << >>))
            ELSE IF ct = SEGDEF_INDICES
            THEN IF bytes_remaining(q) >= 3
                 THEN LET seg_name == parse_index(q)
                          cls_name == parse_index(seg_name.p)
                          ovl_name == parse_index(cls_name.p)
                      IN  Next_(ovl_name.p,
                                With("SegDef", << >>, <<seg_name.v, cls_name.v, ovl_name.v>>))
                 ELSE Break_(q, With("SegDef:TRUNCATED", << >>, << >>))
            ELSE IF ct = LTL
            THEN IF bytes_remaining(q) >= 5
                 THEN LET ltl_data == read_byte(q)
                          max_len == parse_numeric(ltl_data.p, 2)
                          grp_len == parse_numeric(max_len.p, 2)
                      IN  Next_(grp_len.p,
                                With("LTL", << >>, <<ltl_data.v[1], max_len.v, grp_len.v>>))
                 ELSE Break_(q, With("LTL:TRUNCATED", << >>, << >>))
            ELSE IF ct = ABSOLUTE
            THEN IF bytes_remaining(q) >= 3
                 THEN LET frame == parse_numeric(q, 2)
                          offset == read_byte(frame.p)
                      IN  Next_(offset.p, With("Abs", << >>, <<frame.v, offset.v[1]>>))
                 ELSE Break_(q, With("Abs:TRUNCATED", << >>, << >>))
            ELSE Break_(q, [With("Unknown", << >>, <<ct>>) EXCEPT
                               !.warnings = Append(@, <<"Unknown GRPDEF component type", ct>>)])

Str_TYPDEF == <<84, 89, 80, 68, 69, 70, 35>>          \* "TYPDEF#"

\* SegAlignment(value), SegCombine(value), SegAccess(value) (segdef.py, lines
\* 32, 37, 83): the member whose value is the argument.  The classes are
\* StrEnums whose values are strings such as "Byte" (constants.py, lines
\* 282-380) and the argument is an int: there is no such member, and the call
\* raises ValueError.
SegAlignment(value) == None
SegCombine(value) == None
SegAccess(value) == None

\* handle_segdef, line 88: the name the segment enters the table with.
segdef_raw_name(o, seg_name_idx) ==
    IF seg_name_idx < Len(o.lnames) THEN o.lnames[seg_name_idx + 1]
    ELSE Str_Seg \o Decimal(Len(o.segdefs))

\* handle_segdef, lines 16-91.  A length is <<n>>, or the name of the limit
\* that stands for a length of 0 with the B bit.
handle_segdef(o, record) ==
    LET is_32bit == record.type = SEGDEF32
        acbp == read_byte(make_parser(o, record))
        Raise(pp, exc) == [o |-> o, p |-> pp, exit |-> "raise", res |-> << >>, exc |-> exc]
    IN  IF acbp.v = None
        THEN [o |-> o, p |-> acbp.p, exit |-> "return", res |-> None]
        ELSE
        LET align_val == Bits(acbp.v[1], ALIGN_SHIFT, ALIGN_MASK)
            combine_val == Bits(acbp.v[1], COMBINE_SHIFT, COMBINE_MASK)
            big == Bits(acbp.v[1], 1, BIG_MASK)
            use32 == acbp.v[1] % (USE32_MASK + 1)
            alignment == IF align_val = 6 /\ o.variant = PHARLAP
                         THEN Some("PHARLAP_PAGE_4K") ELSE SegAlignment(align_val)
        IN  IF alignment = None \/ SegCombine(combine_val) = None
            THEN Raise(acbp.p, "ValueError")
            ELSE
            LET res0 == [acbp |-> acbp.v[1], alignment |-> alignment[1],
                         combine |-> SegCombine(combine_val)[1],
                         big |-> big # 0, use32 |-> use32 # 0,
                         absolute_frame |-> None, absolute_offset |-> None,
                         length |-> None, segment_name |-> None, class_name |-> None,
                         overlay_name |-> None, access_byte |-> None, access |-> None,
                         warnings |-> << >>]
                frame == parse_numeric(acbp.p, 2)
                abs_offset == read_byte(frame.p)
            IN  IF align_val = 0 /\ abs_offset.v = None
                THEN [o |-> [o EXCEPT !.segdefs =
                                 Append(@, Str_Seg \o Decimal(Len(o.segdefs)))],
                      p |-> abs_offset.p, exit |-> "return",
                      res |-> [res0 EXCEPT !.absolute_frame = Some(frame.v),
                                           !.warnings = <<"Truncated SEGDEF absolute offset">>]]
                ELSE
                LET res1 == IF align_val = 0
                            THEN [res0 EXCEPT !.absolute_frame = Some(frame.v),
                                              !.absolute_offset = abs_offset.v]
                            ELSE res0
                    q == IF align_val = 0 THEN abs_offset.p ELSE acbp.p
                    length == parse_numeric(q, get_offset_field_size(q, is_32bit))
                    seg_name_idx == parse_index(length.p)
                    cls_name_idx == parse_index(seg_name_idx.p)
                    ovl_name_idx == parse_index(cls_name_idx.p)
                    res2 == [res1 EXCEPT
                                !.length = IF big # 0 /\ length.v = 0
                                           THEN IF is_32bit THEN <<"SIZE_4GB">>
                                                ELSE <<"SIZE_64K">>
                                           ELSE <<length.v>>,
                                !.segment_name = Some(get_lname(o, seg_name_idx.v)),
                                !.class_name = Some(get_lname(o, cls_name_idx.v)),
                                !.overlay_name = Some(get_lname(o, ovl_name_idx.v))]
                    has_access == bytes_remaining(ovl_name_idx.p) >= 1
                                      /\ segdef_has_access_byte(o.variant)
                    access_byte == read_byte(ovl_name_idx.p)
                IN  IF has_access /\ SegAccess(access_byte.v[1] % (ACCESS_TYPE_MASK + 1)) = None
                    THEN Raise(access_byte.p, "ValueError")
                    ELSE [o |-> [o EXCEPT !.segdefs =
                                     Append(@, segdef_raw_name(o, seg_name_idx.v))],
                          p |-> IF has_access THEN access_byte.p ELSE ovl_name_idx.p,
                          exit |-> "return",
                          res |-> IF has_access
                                  THEN [res2 EXCEPT !.access_byte = access_byte.v]
                                  ELSE res2]

\* TypDefVarType.from_raw: << >> for a value that is no member (ValueError).
TypDefVarType_from_raw(value) ==
    IF value = 119 THEN Some("Array")
    ELSE IF value = 121 THEN Some("Structure")
    ELSE IF value = 123 THEN Some("Scalar")
    ELSE None

\* handle_typdef, lines 38-76 and 89-129: one leaf after its type byte.  The
\* outcome is the cursor, the leaf if one was made, and how the decoder goes
\* on: "ok", "stop" (a var_type byte is missing) or "raise".
typdef_leaf(o, p, leaf_type, whole_rest) ==
    LET var_type == read_byte(p)
    IN  IF leaf_type = NEAR
        THEN IF var_type.v = None THEN [p |-> var_type.p, leaf |-> None, how |-> "stop"]
             ELSE IF TypDefVarType_from_raw(var_type.v[1]) = None
             THEN [p |-> parse_variable_length_int(var_type.p).p, leaf |-> None,
                   how |-> "raise"]
             ELSE LET size_bits == parse_variable_length_int(var_type.p)
                  IN  [p |-> size_bits.p, how |-> "ok",
                       leaf |-> Some([type |-> "NEAR", leaf_type |-> leaf_type,
                                      var_type |-> TypDefVarType_from_raw(var_type.v[1])[1],
                                      size_bits |-> size_bits.v,
                                      size_bytes |-> size_bits.v \div 8])]
        ELSE IF leaf_type = FAR
        THEN IF var_type.v = None THEN [p |-> var_type.p, leaf |-> None, how |-> "stop"]
             ELSE LET num_elements == parse_variable_length_int(var_type.p)
                      element_type_idx == parse_index(num_elements.p)
                  IN  [p |-> element_type_idx.p, how |-> "ok",
                       leaf |-> Some([type |-> "FAR", leaf_type |-> leaf_type,
                                      num_elements |-> num_elements.v,
                                      element_type |-> get_typdef(o, element_type_idx.v),
                                      element_type_index |-> element_type_idx.v])]
        ELSE [p |-> p, how |-> "ok",
              leaf |-> Some([type |-> "Unknown", leaf_type |-> leaf_type,
                             remaining |-> IF whole_rest
                                           THEN Slice(p.data, p.offset, Len(p.data))
                                           ELSE Slice(p.data, p.offset, p.offset + 16)])]

\* handle_typdef, lines 81-129: the for statement of the Intel format, from
\* leaf leaf_idx on.  The outcome is the cursor, the leaves and whether an
\* exception ended the loop.
RECURSIVE typdef_intel_leaves(_, _, _, _, _)
typdef_intel_leaves(o, p, leaves, leaf_idx, en_byte) ==
    IF leaf_idx >= en_byte \/ bytes_remaining(p) = 0
    THEN [p |-> p, leaves |-> leaves, raised |-> FALSE]
    ELSE LET leaf_type == read_byte(p)
             l == typdef_leaf(o, leaf_type.p, leaf_type.v[1], FALSE)
         IN  IF l.how = "raise" THEN [p |-> l.p, leaves |-> leaves, raised |-> TRUE]
             ELSE IF l.how = "stop" THEN [p |-> l.p, leaves |-> leaves, raised |-> FALSE]
             ELSE typdef_intel_leaves(o, l.p, Append(leaves, <<leaf_idx + 1, l.leaf[1]>>),
                                      leaf_idx + 1, en_byte)

\* handle_typdef, lines 15-133.
handle_typdef(o, record) ==
    LET name == parse_name(make_parser(o, record))
        en_byte == read_byte(name.p)
        appended == [o EXCEPT !.typdefs = Append(@, Str_TYPDEF \o Decimal(Len(o.typdefs)))]
        Result(format, leaves) ==
            [name |-> IF name.v # << >> THEN Some(name.v) ELSE None,
             en_byte |-> en_byte.v[1], format |-> format, leaves |-> leaves]
    IN  IF en_byte.v = None
        THEN [o |-> appended, p |-> en_byte.p, exit |-> "return", res |-> None]
        ELSE IF en_byte.v[1] = 0
        THEN IF bytes_remaining(en_byte.p) = 0
             THEN [o |-> appended, p |-> en_byte.p, exit |-> "return",
                   res |-> Result("Microsoft", << >>)]
             ELSE LET leaf_type == read_byte(en_byte.p)
                      l == typdef_leaf(o, leaf_type.p, leaf_type.v[1], TRUE)
                  IN  IF l.how = "raise"
                      THEN [o |-> o, p |-> l.p, exit |-> "raise", exc |-> "ValueError",
                            res |-> Result("Microsoft", << >>)]
                      ELSE [o |-> appended, p |-> l.p, exit |-> "return",
                            res |-> Result("Microsoft",
                                           IF l.how = "ok" THEN <<l.leaf[1]>> ELSE << >>)]
        ELSE LET ls == typdef_intel_leaves(o, en_byte.p, << >>, 0, en_byte.v[1])
             IN  IF ls.raised
                 THEN [o |-> o, p |-> ls.p, exit |-> "raise", exc |-> "ValueError",
                       res |-> Result("Intel", ls.leaves)]
                 ELSE [o |-> appended, p |-> ls.p, exit |-> "return",
                       res |-> Result("Intel", ls.leaves)]

\* FrameMethod(value), TargetMethod(value), FixupLocation(value) (fixupp.py,
\* lines 54, 57, 99, 120, 135, 139): the member whose value is the argument.
\* The three classes are StrEnums whose values are strings such as "T2:EXTDEF"
\* (constants.py, lines 383-523) and the argument is an int: there is no such
\* member, and the call raises ValueError.
FrameMethod(value) == None
TargetMethod(value) == None
FixupLocation(value) == None

\* handle_fixupp, lines 17-25: up to the loop.  The two thread tables are
\* local variables of the decoder; they are kept with the payload.
handle_fixupp(o, record) ==
    [o |-> o, p |-> make_parser(o, record), exit |-> "loop",
     res |-> [is_32bit |-> record.type = FIXUPP32, subrecords |-> << >>, warnings |-> << >>,
              frame_threads |-> <<None, None, None, None>>,
              target_threads |-> <<None, None, None, None>>]]

\* handle_fixupp, lines 34-78: a THREAD subrecord.
handle_fixupp_thread(o, p, res) ==
    LET b == read_byte(p)
    IN  IF b.v = None
        THEN [o |-> o, p |-> b.p, exit |-> "break",
              res |-> [res EXCEPT !.warnings = Append(@, "Truncated FIXUPP thread subrecord")]]
        ELSE
        LET is_frame == HasBit(b.v[1], THREAD_IS_FRAME)
            method_val == Bits(b.v[1], THREAD_METHOD_SHIFT, THREAD_METHOD_MASK)
            thred == b.v[1] % (THREAD_NUM_MASK + 1)
            num == IF method_val = 3 THEN parse_numeric(b.p, 2) ELSE parse_index(b.p)
            idx == IF method_val <= 3 THEN Some(num.v) ELSE None
            q == IF method_val <= 3 THEN num.p ELSE b.p
            method == IF is_frame THEN FrameMethod(method_val) ELSE TargetMethod(method_val)
        IN  IF method = None
            THEN [o |-> o, p |-> q, exit |-> "raise", res |-> res, exc |-> "ValueError"]
            ELSE
            LET entry == Some([method |-> method[1], idx |-> idx])
                res1 == IF is_frame
                        THEN [res EXCEPT !.frame_threads[thred + 1] = entry]
                        ELSE [res EXCEPT !.target_threads[thred + 1] = entry]
                thread == [sub |-> "THREAD", kind |-> IF is_frame THEN "FRAME" ELSE "TARGET",
                           thread_num |-> thred, method |-> method[1], index |-> idx,
                           warnings |-> IF (is_frame /\ method_val \in {3, 6, 7})
                                            \/ (~is_frame /\ method_val = 7)
                                        THEN <<method_val>> ELSE << >>]
            IN  [o |-> o, p |-> q, exit |-> "next",
                 res |-> [res1 EXCEPT !.subrecords = Append(@, thread)]]

\* handle_fixupp, lines 81-161: a FIXUP subrecord.  base_method.int_val and
\* target_method.int_val (lines 131 and 144) name an attribute the method
\* classes do not have: reading it raises AttributeError.
handle_fixupp_fixup(o, p, res) ==
    LET b1 == read_byte(p)
        b2 == read_byte(b1.p)
        Raise(pp, exc) == [o |-> o, p |-> pp, exit |-> "raise", res |-> res, exc |-> exc]
    IN  IF b1.v = None \/ b2.v = None
        THEN [o |-> o, p |-> b2.p, exit |-> "break",
              res |-> [res EXCEPT !.warnings = Append(@, "Truncated FIXUPP fixup subrecord")]]
        ELSE
        LET loc_type_val == Bits(b1.v[1], LOC_TYPE_SHIFT, LOC_TYPE_MASK)
            location == IF loc_type_val = 5 /\ o.variant = PHARLAP
                        THEN Some("PHARLAP_OFFSET_32") ELSE FixupLocation(loc_type_val)
            fix_dat == read_byte(b2.p)
        IN  IF location = None THEN Raise(b2.p, "ValueError")
            ELSE IF fix_dat.v = None
            THEN [o |-> o, p |-> fix_dat.p, exit |-> "break",
                  res |-> [res EXCEPT !.warnings = Append(@, "Truncated FIXUPP fixup data")]]
            ELSE
            LET f_bit == HasBit(fix_dat.v[1], F_BIT)
                frame_field == Bits(fix_dat.v[1], FRAME_SHIFT, FRAME_MASK)
                t_bit == HasBit(fix_dat.v[1], T_BIT)
                p_bit == IF HasBit(fix_dat.v[1], P_BIT) THEN 1 ELSE 0
                targt_field == fix_dat.v[1] % (TARGET_MASK + 1)
                frame_datum == parse_index(fix_dat.p)
                q == IF ~f_bit /\ frame_field < 3 THEN frame_datum.p ELSE fix_dat.p
                target_thread_data == res.target_threads[targt_field + 1]
            IN  IF ~f_bit /\ FrameMethod(frame_field) = None THEN Raise(fix_dat.p, "ValueError")
                ELSE IF t_bit /\ target_thread_data # None THEN Raise(q, "AttributeError")
                ELSE IF t_bit /\ TargetMethod(p_bit * (2 ^ P_BIT_SHIFT)) = None
                THEN Raise(q, "ValueError")
                ELSE IF ~t_bit /\ TargetMethod(targt_field + p_bit * (2 ^ P_BIT_SHIFT)) = None
                THEN Raise(q, "ValueError")
                ELSE Raise(IF t_bit THEN q ELSE parse_index(q).p, "AttributeError")

\* handle_fixupp, lines 26-33 and 80: the loop body.
handle_fixupp_body(o, p, res) ==
    LET peek == peek_byte(p)
    IN  IF peek.v = None
        THEN [o |-> o, p |-> p, exit |-> "break",
              res |-> [res EXCEPT !.warnings = Append(@, "Truncated FIXUPP record")]]
        ELSE IF ~HasBit(peek.v[1], IS_FIXUP) THEN handle_fixupp_thread(o, p, res)
        ELSE handle_fixupp_fixup(o, p, res)

\* sum() of a list of integers
RECURSIVE SumSeq(_)
SumSeq(s) == IF s = << >> THEN 0 ELSE Head(s) + SumSeq(Tail(s))

\* ParsedLIDataBlock.calculate_expanded_size that leaves the repeat count of a
\* block with nested blocks out
RECURSIVE CalculateExpandedSizeFlat(_)
CalculateExpandedSizeFlat(b) ==
    IF b.block_count = 0
    THEN [b EXCEPT !.expanded_size =
              b.repeat_count * (IF b.content = None THEN 0 ELSE Len(b.content[1]))]
    ELSE LET nested == [i \in 1..Len(b.nested_blocks) |->
                            CalculateExpandedSizeFlat(b.nested_blocks[i])]
         IN  [b EXCEPT !.nested_blocks = nested,
                       !.expanded_size =
                           SumSeq([i \in 1..Len(nested) |-> nested[i].expanded_size])]

\* ParsedLIDataBlock.calculate_expanded_size (models.py): the block after the
\* call, with expanded_size set in it and in every block nested in it.
RECURSIVE calculate_expanded_size(_)
calculate_expanded_size(b) ==
    IF b.block_count = 0
    THEN [b EXCEPT !.expanded_size =
              b.repeat_count * (IF b.content = None THEN 0 ELSE Len(b.content[1]))]
    ELSE LET nested == [i \in 1..Len(b.nested_blocks) |->
                            calculate_expanded_size(b.nested_blocks[i])]
         IN  [b EXCEPT !.nested_blocks = nested,
                       !.expanded_size =
                           b.repeat_count
                               * SumSeq([i \in 1..Len(nested) |-> nested[i].expanded_size])]

\* parse_lidata_blocks, lines 23-69: parse_data_block, and the for statement of
\* its lines 60-67 from iteration i on.  st is the cursor p, the warnings and
\* the flag truncated; the result is st after the call with the block (None
\* when there is none), or with the nested blocks the iterations appended.
RECURSIVE parse_data_block(_, _, _)
RECURSIVE parse_nested_blocks(_, _, _, _, _, _)
parse_data_block(st, is_32bit, depth) ==
    LET repeat_size == get_lidata_repeat_count_size(st.p, is_32bit)
        min_bytes == repeat_size + 2
    IN  IF bytes_remaining(st.p) < min_bytes
        THEN IF bytes_remaining(st.p) > 0 /\ ~st.truncated
             THEN [p |-> st.p, truncated |-> TRUE, block |-> None,
                   warnings |-> Append(st.warnings, <<"Truncated data block", depth,
                                                      min_bytes, bytes_remaining(st.p)>>)]
             ELSE [p |-> st.p, truncated |-> st.truncated, block |-> None,
                   warnings |-> st.warnings]
        ELSE
        LET repeat_count == parse_numeric(st.p, repeat_size)
            block_count == parse_numeric(repeat_count.p, 2)
            block == [repeat_count |-> repeat_count.v, block_count |-> block_count.v,
                      content |-> None, nested_blocks |-> << >>, expanded_size |-> 0]
        IN  IF block_count.v = 0
            THEN LET content_len == read_byte(block_count.p)
                 IN  IF content_len.v = None
                     THEN [p |-> content_len.p, truncated |-> st.truncated,
                           block |-> Some(block),
                           warnings |-> Append(st.warnings,
                                               <<"Missing content length byte", depth>>)]
                     ELSE IF bytes_remaining(content_len.p) < content_len.v[1]
                     THEN LET content == read_bytes(content_len.p,
                                                    bytes_remaining(content_len.p))
                          IN  [p |-> content.p, truncated |-> st.truncated,
                               block |-> Some([block EXCEPT !.content = Some(content.v[1])]),
                               warnings |-> Append(st.warnings,
                                                   <<"Truncated content", depth,
                                                     content_len.v[1],
                                                     bytes_remaining(content_len.p)>>)]
                     ELSE LET content == read_bytes(content_len.p, content_len.v[1])
                          IN  [p |-> content.p, truncated |-> st.truncated,
                               block |-> Some([block EXCEPT !.content = Some(content.v[1])]),
                               warnings |-> st.warnings]
            ELSE LET r == parse_nested_blocks([p |-> block_count.p,
                                               truncated |-> st.truncated,
                                               warnings |-> st.warnings],
                                              is_32bit, depth, 0, block_count.v, << >>)
                 IN  [p |-> r.p, truncated |-> r.truncated, warnings |-> r.warnings,
                      block |-> Some([block EXCEPT !.nested_blocks = r.nested])]
parse_nested_blocks(st, is_32bit, depth, i, block_count, nested) ==
    IF i >= block_count
    THEN [p |-> st.p, truncated |-> st.truncated, warnings |-> st.warnings,
          nested |-> nested]
    ELSE LET r == parse_data_block(st, is_32bit, depth + 1)
             st1 == [p |-> r.p, truncated |-> r.truncated, warnings |-> r.warnings]
         IN  IF r.block # None
             THEN parse_nested_blocks(st1, is_32bit, depth, i + 1, block_count,
                                      Append(nested, r.block[1]))
             ELSE IF ~r.truncated
             THEN parse_nested_blocks([st1 EXCEPT !.warnings =
                                           Append(@, <<"Missing nested block", i + 1,
                                                       block_count, depth>>)],
                                      is_32bit, depth, i + 1, block_count, nested)
             ELSE parse_nested_blocks(st1, is_32bit, depth, i + 1, block_count, nested)

\* parse_lidata_blocks, lines 71-79: the while statement from the state st on,
\* with the blocks appended so far.
RECURSIVE parse_lidata_blocks_loop(_, _, _)
parse_lidata_blocks_loop(st, is_32bit, blocks) ==
    IF bytes_remaining(st.p) > 0
    THEN LET r == parse_data_block(st, is_32bit, 0)
             st1 == [p |-> r.p, truncated |-> r.truncated, warnings |-> r.warnings]
         IN  IF r.block # None
             THEN parse_lidata_blocks_loop(st1, is_32bit,
                                           Append(blocks, calculate_expanded_size(r.block[1])))
             ELSE [p |-> st1.p, blocks |-> blocks, warnings |-> st1.warnings]
    ELSE [p |-> st.p, blocks |-> blocks, warnings |-> st.warnings]

\* parse_lidata_blocks
parse_lidata_blocks(p, is_32bit) ==
    parse_lidata_blocks_loop([p |-> p, truncated |-> FALSE, warnings |-> << >>],
                             is_32bit, << >>)

\* handle_lidata
handle_lidata(o, record) ==
    LET is_32bit == record.type = LIDATA32
        seg_idx == parse_index(make_parser(o, record))
        offset == parse_numeric(seg_idx.p, get_offset_field_size(seg_idx.p, is_32bit))
        r == parse_lidata_blocks(offset.p, is_32bit)
    IN  [o |-> [o EXCEPT !.last_data_record = Some(<<"LIDATA", seg_idx.v, offset.v>>)],
         p |-> r.p, exit |-> "return",
         res |-> [is_32bit |-> is_32bit, segment |-> get_segdef(o, seg_idx.v),
                  segment_index |-> seg_idx.v, offset |-> offset.v,
                  blocks |-> r.blocks,
                  warnings |-> (IF seg_idx.v = 0 THEN <<"Segment index is zero">> ELSE << >>)
                                   \o r.warnings,
                  total_expanded_size |->
                      SumSeq([i \in 1..Len(r.blocks) |-> r.blocks[i].expanded_size])]]

\* handle_ledata
handle_ledata(o, record) ==
    LET is_32bit == record.type = LEDATA32
        seg_idx == parse_index(make_parser(o, record))
        offset == parse_numeric(seg_idx.p, get_offset_field_size(seg_idx.p, is_32bit))
        data_len == bytes_remaining(offset.p)
    IN  [o |-> [o EXCEPT !.last_data_record = Some(<<"LEDATA", seg_idx.v, offset.v>>)],
         p |-> offset.p, exit |-> "return",
         res |-> [is_32bit |-> is_32bit, segment |-> get_segdef(o, seg_idx.v),
                  segment_index |-> seg_idx.v, offset |-> offset.v,
                  data_length |-> data_len,
                  data_preview |-> IF data_len > 0
                                   THEN Some(Slice(offset.p.data, offset.p.offset,
                                                   offset.p.offset + Min(16, data_len)))
                                   ELSE None,
                  warnings |-> << >>]]

\* handle_redata_pedata
handle_redata_pedata(o, record) ==
    LET p0 == make_parser(o, record)
        seg_idx == parse_index(p0)
        frame == parse_numeric(p0, 2)
        offset == parse_numeric(IF record.type = REDATA THEN seg_idx.p ELSE frame.p, 2)
        data_len == bytes_remaining(offset.p)
        record_type == IF record.type = REDATA THEN "REDATA" ELSE "PEDATA"
    IN  [o |-> o, p |-> offset.p, exit |-> "return",
         res |-> [record_type |-> record_type,
                  segment |-> (IF record.type = REDATA
                               THEN Some(get_segdef(o, seg_idx.v)) ELSE None),
                  segment_index |-> (IF record.type = REDATA THEN Some(seg_idx.v) ELSE None),
                  frame |-> (IF record.type = REDATA THEN None ELSE Some(frame.v)),
                  offset |-> offset.v,
                  physical_address |-> (IF record.type = REDATA THEN None
                                        ELSE Some(frame.v * 16 + offset.v)),
                  data_length |-> data_len,
                  data_preview |-> (IF data_len > 0
                                    THEN Some(Slice(offset.p.data, offset.p.offset,
                                                    offset.p.offset + Min(16, data_len)))
                                    ELSE None),
                  warnings |-> (IF o.variant = PHARLAP
                                THEN <<<<"Obsolete 8086 record in PharLap file", record_type>>>>
                                ELSE << >>)]]

\* handle_extdef, lines 13-16: up to the loop.
handle_extdef(o, record) ==
    [o |-> o, p |-> make_parser(o, record), exit |-> "loop",
     res |-> [is_local |-> record.type \in {LEXTDEF, LEXTDEF2}, externals |-> << >>]]

\* handle_extdef, lines 18-28: the loop body.
handle_extdef_body(o, p, res) ==
    LET name == parse_name(p)
        type_idx == parse_index(name.p)
        idx == Len(o.extdefs)
    IN  [o |-> [o EXCEPT !.extdefs = Append(@, name.v)], p |-> type_idx.p, exit |-> "next",
         res |-> [res EXCEPT !.externals =
                      Append(@, [index |-> idx, name |-> name.v, type_index |-> type_idx.v])]]

\* handle_cextdef, lines 36-38: up to the loop.
handle_cextdef(o, record) ==
    [o |-> o, p |-> make_parser(o, record), exit |-> "loop",
     res |-> [externals |-> << >>]]

\* handle_cextdef, lines 40-51: the loop body.
handle_cextdef_body(o, p, res) ==
    LET name_idx == parse_index(p)
        type_idx == parse_index(name_idx.p)
        name == IF name_idx.v < Len(o.lnames) THEN o.lnames[name_idx.v + 1]
                ELSE Str_LName \o Decimal(name_idx.v)
        idx == Len(o.extdefs)
    IN  [o |-> [o EXCEPT !.extdefs = Append(@, name)], p |-> type_idx.p, exit |-> "next",
         res |-> [res EXCEPT !.externals =
                      Append(@, [index |-> idx, name |-> get_lname(o, name_idx.v),
                                 type_index |-> type_idx.v])]]

\* data_type == ComdefType.FAR, data_type == ComdefType.NEAR (comdef.py, lines 34
\* and 47): data_type is the byte read, an int, and ComdefType is a StrEnum whose
\* members are the strings "FAR" and "NEAR": an int never equals a str.
IsComdefTypeFAR(data_type) == FALSE
IsComdefTypeNEAR(data_type) == FALSE

\* The payload classes of models.py: the keyword arguments that make an instance.
\* A required field that is not passed makes the constructor raise.
ComDefFarDefinition_fields ==
    {"name", "type_index", "data_type", "num_elements", "element_size", "total_size"}
ComDefNearDefinition_fields == {"name", "type_index", "data_type", "size"}
ComDefBorlandDefinition_fields == {"name", "type_index", "kind", "seg_index", "length"}
ComDefUnknownDefinition_fields == {"name", "type_index", "kind", "raw_data_type", "length"}
Constructs(required, passed) == required \subseteq passed

\* handle_comdef, lines 17-20: up to the loop.
handle_comdef(o, record) ==
    [o |-> o, p |-> make_parser(o, record), exit |-> "loop",
     res |-> [is_local |-> record.type = LCOMDEF, definitions |-> << >>,
              warnings |-> << >>]]

\* handle_comdef, lines 22-77: the loop body.
handle_comdef_body(o, p, res) ==
    LET name == parse_name(p)
        type_idx == parse_index(name.p)
        data_type == read_byte(type_idx.p)
    IN  IF data_type.v = None
        THEN [o |-> o, p |-> data_type.p, exit |-> "break",
              res |-> [res EXCEPT !.warnings = Append(@, "Truncated COMDEF record")]]
        ELSE
        LET dt == data_type.v[1]
            v1 == parse_variable_length_int(data_type.p)
            v2 == parse_variable_length_int(v1.p)
            Done(pp, defn) ==
                [o |-> [o EXCEPT !.extdefs = Append(@, name.v)], p |-> pp, exit |-> "next",
                 res |-> [res EXCEPT !.definitions = Append(@, defn)]]
            Raise(pp) == [o |-> o, p |-> pp, exit |-> "raise", res |-> res,
                          exc |-> "ValidationError"]
        IN  IF IsComdefTypeFAR(dt)
            THEN IF Constructs(ComDefFarDefinition_fields,
                               {"name", "type_index", "data_type", "kind", "num_elements",
                                "element_size", "total_size"})
                 THEN Done(v2.p, [name |-> name.v, type_index |-> type_idx.v, kind |-> "FAR",
                                  num_elements |-> v1.v, element_size |-> v2.v,
                                  total_size |-> v1.v * v2.v])
                 ELSE Raise(v2.p)
            ELSE IF IsComdefTypeNEAR(dt)
            THEN IF Constructs(ComDefNearDefinition_fields,
                               {"name", "type_index", "data_type", "kind", "size"})
                 THEN Done(v1.p, [name |-> name.v, type_index |-> type_idx.v, kind |-> "NEAR",
                                  size |-> v1.v])
                 ELSE Raise(v1.p)
            ELSE IF 1 <= dt /\ dt <= COMDEF_BORLAND_MAX
            THEN IF Constructs(ComDefBorlandDefinition_fields,
                               {"name", "type_index", "data_type", "kind", "seg_index", "length"})
                 THEN Done(v1.p, [name |-> name.v, type_index |-> type_idx.v,
                                  kind |-> "Borland", seg_index |-> dt, length |-> v1.v])
                 ELSE Raise(v1.p)
            ELSE IF Constructs(ComDefUnknownDefinition_fields,
                               {"name", "type_index", "data_type", "kind", "length"})
                 THEN Done(v1.p, [name |-> name.v, type_index |-> type_idx.v,
                                  kind |-> "Unknown", length |-> v1.v])
                 ELSE Raise(v1.p)

\* handle_linsym, lines 11-27: up to the loop.  flags & CONTINUATION raises a
\* TypeError when the content is empty and flags is None.
handle_linsym(o, record) ==
    LET p0 == make_parser(o, record)
        flags == read_byte(p0)
    IN  IF flags.v = None
        THEN [o |-> o, p |-> flags.p, exit |-> "raise", res |-> [entries |-> << >>],
              exc |-> "TypeError"]
        ELSE
        LET inline == parse_name(flags.p)
            name_idx == parse_index(flags.p)
            uses_inline == linsym_uses_inline_name(o.variant)
        IN  [o |-> o, p |-> IF uses_inline THEN inline.p ELSE name_idx.p, exit |-> "loop",
             res |-> [is_32bit |-> record.type = LINSYM32,
                      continuation |-> (flags.v[1] % 2) = 1,
                      symbol |-> IF uses_inline THEN inline.v ELSE get_lname(o, name_idx.v),
                      entries |-> << >>]]

\* handle_linsym, lines 29-38: the loop body.
handle_linsym_body(o, p, res) ==
    LET line_num == parse_numeric(p, 2)
        offset_size == offset_field_size(p.variant, res.is_32bit)
        offset == parse_numeric(line_num.p, offset_size)
    IN  [o |-> o, p |-> offset.p, exit |-> "next",
         res |-> [res EXCEPT !.entries =
                      Append(@, [line |-> line_num.v, offset |-> offset.v,
                                 is_end_of_function |-> line_num.v = 0])]]

\* handle_coment with handle_easy_omf (coment/intel.py), the class handler that
\* changes the context the decoders of this model read; the other class
\* handlers build the content of the payload.
handle_coment(o, record) ==
    LET flags == read_byte(make_parser(o, record))
        cls == read_byte(flags.p)
    IN  IF flags.v = None \/ cls.v = None
        THEN [o |-> o, p |-> cls.p, exit |-> "return", res |-> [payload |-> None]]
        ELSE [o |-> IF cls.v[1] = EASY_OMF_CLASS
                    THEN [o EXCEPT !.features = @ \cup {<<"easy_omf">>, <<"pharlap">>}]
                    ELSE o,
              p |-> cls.p, exit |-> "return",
              res |-> [comment_class |-> cls.v[1], no_purge |-> flags.v[1] >= 128,
                       no_list |-> (flags.v[1] \div 64) % 2 = 1]]

\* handle_libhdr
handle_libhdr(o, record) ==
    LET dict_offset == parse_numeric(make_parser(o, record), 4)
        dict_blocks == parse_numeric(dict_offset.p, 2)
        lib_flags == read_byte(dict_blocks.p)
        o1 == [o EXCEPT !.lib_page_size = record.length + 3,
                        !.lib_dict_offset = dict_offset.v,
                        !.lib_dict_blocks = dict_blocks.v]
    IN  [o |-> o1, p |-> lib_flags.p, exit |-> "return",
         res |-> IF lib_flags.v = None THEN [payload |-> None]
                 ELSE [page_size |-> record.length + 3, dict_offset |-> dict_offset.v,
                       dict_blocks |-> dict_blocks.v, flags |-> lib_flags.v[1],
                       case_sensitive |-> (lib_flags.v[1] % 2) = 1]]

-----------------------------------------------------------------------------
(* Input files.  A file is the concatenation of chunks: well-formed        *)
(* records, records with a wrong or a zero checksum, library filler bytes  *)
(* and fragments that break the record chain.                              *)

Rec(type, content, chk) == <<type>> \o Pack16(Len(content) + 1) \o content \o <<chk>>

\* The checksum byte that makes the 8-bit sum of the whole record 0.
Chk(type, content) ==
    (256 - (SumBytes(<<type>> \o Pack16(Len(content) + 1) \o content) % 256)) % 256

Good(type, content) == Rec(type, content, Chk(type, content))

\* A checksum byte that is neither 0 nor right.
BadChk(type, content) ==
    LET c == Chk(type, content)
    IN  IF (c + 1) % 256 = 0 THEN 2 ELSE (c + 1) % 256

ScanChunk(i) ==
    CASE i = 1 -> Good(THEADR, <<1, 65>>)
      [] i = 2 -> Rec(COMENT, <<0, EASY_OMF_CLASS>>, 0)
      [] i = 3 -> Good(COMENT, <<128, 0, 73, 66, 77>>)
      [] i = 4 -> Good(COMENT, <<0, 218, 80, 104, 97, 114, 76, 97, 112>>)
      [] i = 5 -> Rec(MODEND, <<0>>, BadChk(MODEND, <<0>>))
      [] i = 6 -> <<LIBHDR, 2, 0, 0, 0>>
      [] i = 7 -> <<LIBEND, 1, 0, 0>>
      [] i = 8 -> <<0>>
      [] i = 9 -> <<COMENT>>
      [] i = 10 -> <<MODEND32, 9, 0>>
      [] i = 11 -> <<LNAMES, 0, 0>>
      [] i = 12 -> Good(VENDEXT, <<7, 0>>)

ScanChunkIds == 1..12

RECURSIVE SeqsUpTo(_, _)
SeqsUpTo(S, n) ==
    IF n = 0 THEN {<< >>}
    ELSE LET shorter == SeqsUpTo(S, n - 1)
         IN  shorter \cup {Append(q, x) : q \in {p \in shorter : Len(p) = n - 1}, x \in S}

\* The file made of the chunks cs.
ScanFile(cs) == Concat([i \in 1..Len(cs) |-> ScanChunk(cs[i])])

-----------------------------------------------------------------------------
(* Phase 2 state that Phase 1 leaves alone.                                *)

OmfIdle == [pc |-> "idle"]
SubIdle == [data |-> << >>, offset |-> 0, variant |-> TIS_STANDARD]

-----------------------------------------------------------------------------
(* Specification of Phase 1: Scanner(data).scan() over every input file.   *)

Init ==
    /\ chunks \in SeqsUpTo(ScanChunkIds, MaxChunks)
    /\ scanner = ScannerInit(ScanFile(chunks))
    /\ omf = OmfIdle
    /\ sub = SubIdle
    /\ result = << >>
    /\ ri = 0
    /\ dispatched = << >>
    /\ pc = "scan"

ScanBegin ==
    /\ pc = "scan" /\ scanner.pc = "start"
    /\ scanner' = ScanPrologue(scanner)
    /\ UNCHANGED <<omf, sub, result, ri, dispatched, pc, chunks>>

ScanSkipFiller ==
    /\ pc = "scan" /\ scanner.pc = "loop" /\ AtFiller(scanner)
    /\ scanner' = [scanner EXCEPT !.offset = @ + 1]
    /\ UNCHANGED <<omf, sub, result, ri, dispatched, pc, chunks>>

ScanReadRecord ==
    /\ pc = "scan" /\ scanner.pc = "loop" /\ ~AtEnd(scanner) /\ ~AtFiller(scanner)
    /\ scanner' = ScanRecord(scanner)
    /\ UNCHANGED <<omf, sub, result, ri, dispatched, pc, chunks>>

ScanReturn ==
    /\ pc = "scan" /\ scanner.pc = "loop" /\ AtEnd(scanner)
    /\ scanner' = ScanEpilogue(scanner)
    /\ UNCHANGED <<omf, sub, result, ri, dispatched, pc, chunks>>

Next == ScanBegin \/ ScanSkipFiller \/ ScanReadRecord \/ ScanReturn

Spec == Init /\ [][Next]_vars

-----------------------------------------------------------------------------
(* Properties of Phase 1.                                                  *)

\* The end (exclusive) of record r in the file: offset + 3 + length.
RecEnd(r) == r.offset + 3 + r.length

\* The bytes of the file that record r was read from.
RawOf(r) == SubSeq(scanner.data, r.offset + 1, RecEnd(r))

LastRec == scanner.records[Len(scanner.records)]

\* Where the bytes not yet turned into records begin once the scan has returned.
EndOfRecords == IF scanner.records = << >> THEN 0 ELSE RecEnd(LastRec)

\* C1: every record the scanner returns lies inside the file:
\* offset + 3 + length <= len(data); a record whose declared length runs past
\* the end of the file is never in the list.
C1_RecordInsideFile ==
    \A i \in 1..Len(scanner.records) :
        RecEnd(scanner.records[i]) <= Len(scanner.data)

\* C1 witness: the scan has returned some records and stopped at a record whose
\* declared length runs past the end of the file.
C1_Witness ==
    /\ scanner.pc = "done" /\ scanner.records # << >> /\ ~scanner.is_library
    /\ LastRec.type # LIBEND
    /\ EndOfRecords + 3 <= Len(scanner.data)
    /\ EndOfRecords + 3
         + Unpack16(SubSeq(scanner.data, EndOfRecords + 2, EndOfRecords + 3))
         > Len(scanner.data)

\* The scanner stands at a position that is no filler byte and where the header
\* cannot be read or the declared length exceeds the bytes that remain.
StructuralFault(s) ==
    /\ s.pc = "loop" /\ s.offset < Len(s.data)
    /\ ~(s.is_library /\ s.data[s.offset + 1] = 0)
    /\ \/ s.offset + 3 > Len(s.data)
       \/ s.offset + 3 + Unpack16(SubSeq(s.data, s.offset + 2, s.offset + 3))
            > Len(s.data)

\* A record without the module variant, which the scan assigns afterwards.
Core(r) == [type |-> r.type, offset |-> r.offset, length |-> r.length,
            content |-> r.content, checksum |-> r.checksum,
            checksum_valid |-> r.checksum_valid]
Cores(rs) == [i \in 1..Len(rs) |-> Core(rs[i])]

C5_ChecksumValidity ==
    \A i \in 1..Len(scanner.records) :
        LET r == scanner.records[i]
        IN  r.type \notin {LIBHDR, LIBEND} =>
              /\ r.checksum # None /\ r.checksum_valid # None
              /\ r.length > 0 => r.checksum[1] = scanner.data[RecEnd(r)]
              /\ r.checksum_valid[1] <=>
                    (r.checksum[1] = 0 \/ SumBytes(RawOf(r)) % 256 = 0)
              /\ r.checksum[1] # 0 =>
                    (r.checksum_valid[1] <=> SumBytes(RawOf(r)) % 256 = 0)

\* C5 witness: the records hold one with a right non-zero checksum, one with a
\* wrong non-zero checksum, and one whose checksum is 0 while the sum is not.
C5_Witness ==
    /\ \E i \in 1..Len(scanner.records) :
          LET r == scanner.records[i]
          IN  r.checksum # None /\ r.checksum[1] # 0 /\ r.checksum_valid[1]
    /\ \E i \in 1..Len(scanner.records) :
          LET r == scanner.records[i]
          IN  r.checksum # None /\ r.checksum[1] # 0 /\ ~r.checksum_valid[1]
    /\ \E i \in 1..Len(scanner.records) :
          LET r == scanner.records[i]
          IN  /\ r.checksum # None /\ r.length > 0 /\ r.checksum[1] = 0
              /\ SumBytes(RawOf(r)) % 256 # 0 /\ r.checksum_valid[1]

\* What one COMENT record says about its module's variant: None when it signals
\* nothing.
VariantSignal(content) ==
    IF Len(content) < 2 THEN None
    ELSE LET text == DecodeIgnoreLower(SubSeq(content, 3, Len(content)))
         IN  IF Contains(text, TxtPharlap) \/ Contains(text, TxtPharLap)
             THEN Some(PHARLAP)
             ELSE IF Contains(text, TxtIbm) \/ Contains(text, TxtLink386)
             THEN Some(IBM_LINK386)
             ELSE IF content[2] = EASY_OMF_CLASS THEN Some(PHARLAP)
             ELSE None

\* The variant that the COMENT records among records i..j signal, from cur.
RECURSIVE SignalledVariant(_, _, _, _)
SignalledVariant(rs, i, j, cur) ==
    IF i > j THEN cur
    ELSE SignalledVariant(rs, i + 1, j,
             IF rs[i].type = COMENT /\ VariantSignal(rs[i].content) # None
             THEN VariantSignal(rs[i].content)[1] ELSE cur)

\* Records i..j are one module: its header through its MODEND.
IsModule(rs, i, j) ==
    /\ i < j
    /\ rs[i].type \in {THEADR, LHEADR}
    /\ rs[j].type \in {MODEND, MODEND32}
    /\ \A k \in (i + 1)..(j - 1) :
           rs[k].type \notin {THEADR, LHEADR, MODEND, MODEND32}

C9_VariantMonotoneInModule ==
    [][(scanner._module_variant # TIS_STANDARD
          /\ scanner'._module_variant = TIS_STANDARD) =>
          /\ Len(scanner'.records) = Len(scanner.records) + 1
          /\ scanner'.records[Len(scanner'.records)].type \in {THEADR, LHEADR}
      ]_vars

\* C9 witness: a module whose variant has advanced to PHARLAP or IBM_LINK386
\* and that has had a later record, not a COMENT, read into it.
C9_Witness ==
    /\ scanner._module_variant \in {PHARLAP, IBM_LINK386}
    /\ Len(scanner.records) >= scanner._module_start_idx + 3
    /\ scanner.records[scanner._module_start_idx + 1].type \in {THEADR, LHEADR}
    /\ scanner.records[scanner._module_start_idx + 2].type = COMENT
    /\ LastRec.type \notin {COMENT, THEADR, LHEADR}

-----------------------------------------------------------------------------
(* Input files of Phase 2: records with a right checksum, some of them     *)
(* with a content that ends in the middle of an entry.                     *)

ParseChunk(i) ==
    CASE i = 1 -> Good(THEADR, <<1, 65>>)
      [] i = 2 -> <<LIBHDR, 7, 0, 16, 0, 0, 0, 1, 0, 1>>
      [] i = 3 -> Good(COMENT, <<0, EASY_OMF_CLASS>>)
      [] i = 4 -> Good(LNAMES, <<1, 76, 1, 77>>)
      [] i = 5 -> Good(EXTDEF, <<1, 69, 0, 1, 70, 0>>)
      [] i = 6 -> Good(CEXTDEF, <<1, 0, 2, 0>>)
      [] i = 7 -> Good(COMDEF, <<1, 88, 0, 1, 4, 1, 89, 0, 98, 4>>)
      [] i = 8 -> Good(LINSYM, <<0, 1, 5, 0, 7, 0>>)
      [] i = 9 -> Good(LINSYM, <<0, 1, 5>>)
      [] i = 10 -> Good(LINSYM, << >>)
      [] i = 11 -> Good(1, <<0>>)
      [] i = 12 -> Good(LEXTDEF, <<5, 65>>)
      [] i = 13 -> Good(LCOMDEF, <<1, 88, 0>>)

ParseChunkIds == 1..13

ParseFile(cs) == Concat([i \in 1..Len(cs) |-> ParseChunk(cs[i])])

-----------------------------------------------------------------------------
(* Specification of Phase 2: OMFFile.scan() and then OMFFile.parse() over  *)
(* every input file.  A step is one record dispatched (with the whole of a *)
(* decoder that has no loop) or one iteration of a decoder loop.           *)

InitParse ==
    /\ chunks \in SeqsUpTo(ParseChunkIds, MaxParseChunks)
    /\ scanner = ScanRun(ScannerInit(ParseFile(chunks)))
    /\ omf = OMFFile(scanner)
    /\ sub = SubIdle
    /\ result = << >>
    /\ ri = 0
    /\ dispatched = << >>
    /\ pc = "dispatch"

\* The record parse() is at and the handler _parse_record finds for it.
CurRecord == omf.records[ri + 1]
CurHandler == get_record_handler(CurRecord.type, omf.features)

\* OMFFile._parse_record, lines 101-107, with the for statement of parse(): where
\* the decoder state h leaves parse().  A decoder that raised has its exception
\* recorded, and parse() goes on to the next record as after a return; a
\* decoder inside its loop stays at its record.
TryHandlerPropagates(h, i) ==
    IF h.exit = "raise" THEN [omf |-> h.o, ri |-> i, pc |-> "done"]
    ELSE IF h.exit \in {"return", "break"} \/ bytes_remaining(h.p) <= 0
    THEN [omf |-> h.o, ri |-> i + 1, pc |-> "dispatch"]
    ELSE [omf |-> h.o, ri |-> i, pc |-> "loop"]
TryHandler(h, i) ==
    IF h.exit = "raise"
    THEN [omf |-> add_error(h.o, <<"Error parsing record", h.exc>>),
          ri |-> i + 1, pc |-> "dispatch"]
    ELSE IF h.exit \in {"return", "break"} \/ bytes_remaining(h.p) <= 0
    THEN [omf |-> h.o, ri |-> i + 1, pc |-> "dispatch"]
    ELSE [omf |-> h.o, ri |-> i, pc |-> "loop"]

Step(h) ==
    LET t == TryHandler(h, ri)
    IN  /\ omf' = t.omf
        /\ ri' = t.ri
        /\ pc' = t.pc
        /\ sub' = h.p
        /\ result' = h.res
        /\ UNCHANGED <<scanner, chunks>>

Dispatch(name) ==
    /\ pc = "dispatch" /\ ri < Len(omf.records)
    /\ CurHandler = Some(name)
    /\ dispatched' = Append(dispatched, ri)

Iterate(name) ==
    /\ pc = "loop"
    /\ CurHandler = Some(name)
    /\ UNCHANGED dispatched

ParseTheadr == Dispatch("handle_theadr") /\ Step(handle_theadr(omf, CurRecord))

ParseComent == Dispatch("handle_coment") /\ Step(handle_coment(omf, CurRecord))

ParseLibhdr == Dispatch("handle_libhdr") /\ Step(handle_libhdr(omf, CurRecord))

ParseLnames == Dispatch("handle_lnames") /\ Step(handle_lnames(omf, CurRecord))

IterLnames == Iterate("handle_lnames") /\ Step(handle_lnames_body(omf, sub, result))

ParseExtdef == Dispatch("handle_extdef") /\ Step(handle_extdef(omf, CurRecord))

IterExtdef == Iterate("handle_extdef") /\ Step(handle_extdef_body(omf, sub, result))

ParseCextdef == Dispatch("handle_cextdef") /\ Step(handle_cextdef(omf, CurRecord))

IterCextdef == Iterate("handle_cextdef") /\ Step(handle_cextdef_body(omf, sub, result))

ParseComdef == Dispatch("handle_comdef") /\ Step(handle_comdef(omf, CurRecord))

IterComdef == Iterate("handle_comdef") /\ Step(handle_comdef_body(omf, sub, result))

ParseLinsym == Dispatch("handle_linsym") /\ Step(handle_linsym(omf, CurRecord))

\* The model follows the loop of handle_linsym for MaxEntries iterations.
IterLinsym ==
    /\ Iterate("handle_linsym")
    /\ Len(result.entries) < MaxEntries
    /\ Step(handle_linsym_body(omf, sub, result))

\* OMFFile._parse_record, lines 108-113: no handler for the record type.
ParseNoHandler ==
    /\ pc = "dispatch" /\ ri < Len(omf.records)
    /\ CurHandler = None
    /\ dispatched' = Append(dispatched, ri)
    /\ omf' = add_warning(omf, <<"No handler for record type", CurRecord.type>>)
    /\ ri' = ri + 1
    /\ UNCHANGED <<scanner, sub, result, pc, chunks>>

\* OMFFile.parse: the for statement has run out of records.
ParseReturn ==
    /\ pc = "dispatch" /\ ri = Len(omf.records)
    /\ pc' = "done"
    /\ UNCHANGED <<scanner, omf, sub, result, ri, dispatched, chunks>>

NextParse ==
    \/ ParseTheadr \/ ParseComent \/ ParseLibhdr
    \/ ParseLnames \/ IterLnames
    \/ ParseExtdef \/ IterExtdef
    \/ ParseCextdef \/ IterCextdef
    \/ ParseComdef \/ IterComdef
    \/ ParseLinsym \/ IterLinsym
    \/ ParseNoHandler \/ ParseReturn

SpecParse == InitParse /\ [][NextParse]_vars

-----------------------------------------------------------------------------
(* Properties of Phase 2.                                                  *)

\* C2: the scan followed by the parse of all scanned records returns, because
\* every iteration of a decoder loop 'while bytes remain' makes progress: it
\* leaves the cursor further in the content than it found it, also when the
\* bytes left are fewer than one full entry.
C2_DecoderLoopsMakeProgress ==
    [][pc = "loop" => sub'.offset > sub.offset]_vars

\* C4: an exception raised by a record's decoder is recorded as an error and
\* never aborts the loop of parse(): the records handed to _parse_record are at
\* every moment the first records of the scanned list, each once and in list
\* order; every raise adds one error and parse() goes on to the next record;
\* and parse() returns only when every record has been dispatched.
C4_RaiseNeverAbortsParse ==
    /\ [](pc \in {"dispatch", "loop", "done"} =>
            /\ dispatched = [i \in 1..Len(dispatched) |-> i - 1]
            /\ Len(dispatched) = IF pc = "loop" THEN ri + 1 ELSE ri
            /\ Len(dispatched) <= Len(omf.records)
            /\ (pc = "done" => Len(dispatched) = Len(omf.records)))
    /\ [][(pc \in {"dispatch", "loop"} /\ Len(omf'.errors) > Len(omf.errors)) =>
            /\ Len(omf'.errors) = Len(omf.errors) + 1
            /\ ri' = Len(dispatched') /\ pc' = "dispatch"]_vars
    /\ [][(pc = "dispatch" /\ pc' = "dispatch" /\ ri' = ri + 1
             /\ CurRecord.type \in {LINSYM, LINSYM32} /\ CurRecord.content = << >>) =>
            Len(omf'.errors) = Len(omf.errors) + 1]_vars

\* A decoder raised at a record that is not the last, and parse() has returned
\* after dispatching every record.
C4_Witness ==
    /\ pc = "done"
    /\ Len(omf.records) >= 2
    /\ Len(dispatched) = Len(omf.records)
    /\ omf.errors # << >>
    /\ omf.records[1].type = LINSYM /\ omf.records[1].content = << >>

\* The names a record of the input files declares, by the layout of its record
\* type: for EXTDEF and COMDEF the names in its content, for CEXTDEF the names
\* at the LNAMES indices in its content.
NamesOfChunk(i) ==
    CASE i = 5 -> << <<69>>, <<70>> >>
      [] i = 6 -> << <<76>>, <<77>> >>
      [] i = 7 -> << <<88>>, <<89>> >>
      [] OTHER -> << >>

\* The names declared by the first n records since the last module header.
RECURSIVE NamesSinceHeader(_)
NamesSinceHeader(n) ==
    IF n = 0 \/ chunks[n] = 1 THEN << >>
    ELSE NamesSinceHeader(n - 1) \o NamesOfChunk(chunks[n])

\* The first n records are whole (no content ends inside an entry) and every
\* CEXTDEF among them follows an LNAMES record of its module.
RECURSIVE HasLnamesSinceHeader(_)
HasLnamesSinceHeader(n) ==
    IF n = 0 \/ chunks[n] = 1 THEN FALSE
    ELSE chunks[n] = 4 \/ HasLnamesSinceHeader(n - 1)
WholeRecords(n) ==
    \A k \in 1..n : /\ chunks[k] \notin {9, 10, 12, 13}
                    /\ (chunks[k] = 6 => HasLnamesSinceHeader(k - 1))

\* C6: after any sequence of whole records of one module, extdefs after its
\* sentinel is the concatenation, in record order and in entry order, of the
\* names of the EXTDEF, CEXTDEF and COMDEF entries decoded since the module
\* header, and the index in each EXTDEF/CEXTDEF payload entry is the position
\* of that entry in extdefs.
C6_ExtdefsIsMergedTable ==
    (pc = "dispatch" /\ WholeRecords(ri)) =>
        /\ omf.extdefs = <<Str_null>> \o NamesSinceHeader(ri)
        /\ (ri > 0 /\ omf.records[ri].type \in {EXTDEF, LEXTDEF, LEXTDEF2, CEXTDEF}) =>
               \A k \in 1..Len(result.externals) :
                   result.externals[k].index
                       = Len(omf.extdefs) - Len(result.externals) + k - 1

\* C7: every record that carries a module_variant is decoded with that variant:
\* the cursor its decoder reads the content with has the record's module_variant.
C7_DecodedWithModuleVariant ==
    [][(pc = "dispatch" /\ dispatched' # dispatched /\ CurHandler # None
          /\ CurRecord.module_variant # None) =>
            sub'.variant = CurRecord.module_variant[1]]_vars

\* C10: in library mode, right after a THEADR/LHEADR record is processed each of
\* lnames, segdefs, grpdefs, extdefs and typdefs holds only the sentinel entry.
C10_LibraryTheadrResetsTables ==
    [][(pc = "dispatch" /\ dispatched' # dispatched /\ omf.is_library
          /\ CurRecord.type \in {THEADR, LHEADR}) =>
            /\ omf'.lnames = <<Str_null>>
            /\ omf'.segdefs = <<Str_null>>
            /\ omf'.grpdefs = <<Str_null>>
            /\ omf'.extdefs = <<Str_null>>
            /\ omf'.typdefs = <<Str_null>>]_vars

\* A library whose THEADR has just been processed after an EXTDEF record had
\* put names in extdefs.
C10_Witness ==
    /\ pc = "dispatch" /\ ri = 3
    /\ omf.is_library
    /\ omf.records[2].type = EXTDEF
    /\ omf.records[3].type = THEADR
    /\ omf.extdefs = <<Str_null>>

-----------------------------------------------------------------------------
(* Format detection (detect.py).  A confidence is a number of hundredths.   *)

\* _TRANSLATOR_SIGNATURES: "Microsoft", "MASM", "ML ", "LINK", "Borland", ...
TRANSLATOR_SIGNATURES ==
    {
     <<77, 105, 99, 114, 111, 115, 111, 102, 116>>, <<77, 65, 83, 77>>,
     <<77, 76, 32>>, <<76, 73, 78, 75>>, <<66, 111, 114, 108, 97, 110, 100>>,
     <<84, 65, 83, 77>>, <<84, 117, 114, 98, 111>>, <<87, 65, 84, 67, 79, 77>>,
     <<87, 65, 83, 77>>, <<87, 76, 73, 78, 75>>, <<79, 80, 84, 65, 83, 77>>,
     <<76, 90, 65, 83, 77>>, <<78, 65, 83, 77>>, <<70, 65, 83, 77>>,
     <<80, 104, 97, 114, 32, 76, 97, 112>>, <<80, 104, 97, 114, 76, 97, 112>>,
     <<73, 110, 116, 101, 108>>, <<105, 67, 56, 54>>, <<65, 83, 77, 56, 54>>,
     <<68, 105, 103, 105, 116, 97, 108, 32, 77, 97, 114, 115>>,
     <<68, 74, 71, 80, 80>>, <<74, 87, 97, 115, 109>>, <<85, 65, 83, 77>>,
     <<80, 79, 65, 83, 77>>}

\* The alternatives of _THEADR_EXTENSIONS: asm, obj, c, cpp, cxx, pas, for,
\* cob, bas, inc, h, hpp.
THEADR_EXTENSIONS ==
    {
     <<97, 115, 109>>, <<111, 98, 106>>, <<99>>, <<99, 112, 112>>,
     <<99, 120, 120>>, <<112, 97, 115>>, <<102, 111, 114>>, <<99, 111, 98>>,
     <<98, 97, 115>>, <<105, 110, 99>>, <<104>>, <<104, 112, 112>>}

\* "80386"
Txt80386 == <<56, 48, 51, 56, 54>>

\* _VALID_RECORD_TYPES
VALID_RECORD_TYPES == {n \in 110..126 : n % 2 = 0} \cup 128..206 \cup {240, 241, 242}

\* all(32 <= b < 127 for b in name_bytes)
AllPrintable(bs) == \A i \in 1..Len(bs) : 32 <= bs[i] /\ bs[i] < 127

\* checksum == 0 or (sum(record) & 0xFF) == 0
ChecksumAccepted(record) == record[Len(record)] = 0 \/ SumBytes(record) % 256 = 0

\* _THEADR_EXTENSIONS.search(name_bytes), for printable name_bytes: the name
\* ends with a dot and one of the extensions in either case, and then at most
\* one byte up to 0x20.
EndsWith(bs, suffix) ==
    Len(bs) >= Len(suffix) /\ SubSeq(bs, Len(bs) - Len(suffix) + 1, Len(bs)) = suffix
HasTheadrExtension(name_bytes) ==
    LET lower == [i \in 1..Len(name_bytes) |-> LowerByte(name_bytes[i])]
    IN  \E ext \in THEADR_EXTENSIONS :
            \/ EndsWith(lower, <<46>> \o ext)
            \/ /\ lower # << >> /\ lower[Len(lower)] <= 32
               /\ EndsWith(SubSeq(lower, 1, Len(lower) - 1), <<46>> \o ext)

\* _validate_record_chain: the for statement from iteration i on, at pos.
RECURSIVE SkipZeroBytes(_, _)
SkipZeroBytes(data, pos) ==
    IF pos < Len(data) /\ data[pos + 1] = 0 THEN SkipZeroBytes(data, pos + 1) ELSE pos
RECURSIVE validate_record_chain_from(_, _, _, _, _)
validate_record_chain_from(data, pos0, i, count, is_library) ==
    IF i >= count THEN [valid |-> TRUE, pos |-> pos0]
    ELSE
    LET pos == IF is_library THEN SkipZeroBytes(data, pos0) ELSE pos0
    IN  IF pos + 3 > Len(data) THEN [valid |-> i > 0, pos |-> pos]
        ELSE IF data[pos + 1] \notin VALID_RECORD_TYPES THEN [valid |-> i > 0, pos |-> pos]
        ELSE
        LET rec_type == data[pos + 1]
            rec_len == Unpack16(Slice(data, pos + 1, pos + 3))
            record == Slice(data, pos, pos + 3 + rec_len)
        IN  IF rec_len = 0 \/ pos + 3 + rec_len > Len(data)
            THEN [valid |-> i > 0, pos |-> pos]
            ELSE IF rec_type \notin {LIBHDR, LIBEND} /\ ~ChecksumAccepted(record)
            THEN [valid |-> i > 0, pos |-> pos]
            ELSE IF rec_type \in {MODEND, MODEND32, LIBEND}
            THEN [valid |-> TRUE, pos |-> pos + 3 + rec_len]
            ELSE validate_record_chain_from(data, pos + 3 + rec_len, i + 1, count, is_library)

\* _validate_record_chain
validate_record_chain(data, offset, count, is_library) ==
    validate_record_chain_from(data, offset, 0, count, is_library)

\* detect_omf that accepts from a confidence of 0.4 on
DetectOmfLowThreshold(data, check_depth) ==
    IF Len(data) < 4 \/ data[1] \notin {THEADR, LHEADR, LIBHDR}
    THEN [is_omf |-> FALSE, confidence |-> 0]
    ELSE [is_omf |-> Len(data) >= 3 + Unpack16(Slice(data, 1, 3)), confidence |-> 40]

\* detect_omf: the first two members of the tuple it returns.
detect_omf(data, check_depth) ==
    IF Len(data) < 4 THEN [is_omf |-> FALSE, confidence |-> 0]
    ELSE IF data[1] \notin {THEADR, LHEADR, LIBHDR} THEN [is_omf |-> FALSE, confidence |-> 0]
    ELSE
    LET first_byte == data[1]
        rec_len == Unpack16(Slice(data, 1, 3))
    IN  IF rec_len = 0 \/ 3 + rec_len > Len(data) THEN [is_omf |-> FALSE, confidence |-> 10]
        ELSE
        LET content == Slice(data, 3, 3 + rec_len)
            str_len == content[1]
            name_bytes == Slice(content, 1, 1 + str_len)
            c_name == IF first_byte \in {THEADR, LHEADR} /\ Len(content) >= 2
                         /\ str_len = rec_len - 2
                      THEN IF AllPrintable(name_bytes) THEN 30 ELSE 15
                      ELSE 0
            c_sum == IF ChecksumAccepted(Slice(data, 0, 3 + rec_len)) THEN 10 ELSE 0
            c_chain == IF validate_record_chain(data, 0, check_depth,
                                                first_byte = LIBHDR).valid
                       THEN 10 ELSE 0
            confidence == Min(100, 40 + c_name + c_sum + c_chain)
        IN  [is_omf |-> confidence >= 50, confidence |-> confidence]

\* _has_translator_signature
has_translator_signature(data, offset) ==
    IF offset + 5 > Len(data) THEN FALSE
    ELSE LET rec_len == Unpack16(Slice(data, offset + 1, offset + 3))
             content == Slice(data, offset + 3, offset + 3 + rec_len)
         IN  IF rec_len < 3 \/ offset + 3 + rec_len > Len(data) THEN FALSE
             ELSE IF content[2] # 0 THEN FALSE
             ELSE \E sig \in TRANSLATOR_SIGNATURES : Contains(Slice(content, 2, Len(content)), sig)

\* _check_theadr: None, or the candidate (offset, header_type, confidence,
\* estimated_size).
check_theadr(data, offset) ==
    IF offset + 4 > Len(data) THEN None
    ELSE
    LET rec_type == data[offset + 1]
        rec_len == Unpack16(Slice(data, offset + 1, offset + 3))
    IN  IF rec_len < 2 \/ offset + 3 + rec_len > Len(data) THEN None
        ELSE
        LET content == Slice(data, offset + 3, offset + 3 + rec_len)
            str_len == content[1]
            name_bytes == Slice(content, 1, 1 + str_len)
            record == Slice(data, offset, offset + 3 + rec_len)
            chain == validate_record_chain(data, offset, 3, FALSE)
            next_offset == offset + 3 + rec_len
            c_ext == IF HasTheadrExtension(name_bytes) THEN 20 ELSE 0
            c_chain == IF ~chain.valid THEN 0
                       ELSE IF next_offset < Len(data) /\ data[next_offset + 1] = COMENT
                       THEN IF has_translator_signature(data, next_offset) THEN 40 ELSE 25
                       ELSE 15
        IN  IF str_len # rec_len - 2 THEN None
            ELSE IF ~AllPrintable(name_bytes) THEN None
            ELSE IF ~ChecksumAccepted(record) THEN None
            ELSE Some([offset |-> offset, header_type |-> rec_type,
                       confidence |-> Min(100, 55 + c_ext + c_chain),
                       estimated_size |-> IF chain.valid THEN Some(chain.pos - offset)
                                          ELSE None])

\* _check_libhdr
check_libhdr(data, offset) ==
    IF offset + 10 > Len(data) THEN None
    ELSE
    LET rec_len == Unpack16(Slice(data, offset + 1, offset + 3))
    IN  IF rec_len < 7 \/ offset + 3 + rec_len > Len(data) THEN None
        ELSE
        LET content == Slice(data, offset + 3, offset + 3 + rec_len)
            page_size == Unpack16(Slice(content, 0, 2)) + 3
            dict_offset == UnpackLE(Slice(content, 2, 6))
            first_module_offset == offset + page_size
            c_page == IF page_size \in {16, 32, 64, 128, 256, 512, 1024, 2048, 4096}
                      THEN 20 ELSE 10
            c_dict == IF 0 < dict_offset /\ dict_offset < Len(data) - offset THEN 15 ELSE 0
            c_module == IF first_module_offset < Len(data)
                           /\ data[first_module_offset + 1] = THEADR
                        THEN IF validate_record_chain(data, first_module_offset, 2,
                                                      FALSE).valid
                             THEN 40 ELSE 25
                        ELSE 0
        IN  IF page_size \notin {2 ^ k : k \in 4..16} THEN None
            ELSE Some([offset |-> offset, header_type |-> LIBHDR,
                       confidence |-> Min(100, 25 + c_page + c_dict + c_module),
                       estimated_size |-> None])

\* _check_easy_omf_marker
check_easy_omf_marker(data, offset) ==
    IF offset + 3 > Len(data) THEN None
    ELSE
    LET rec_len == Unpack16(Slice(data, offset + 1, offset + 3))
        content == Slice(data, offset + 3, offset + 3 + rec_len - 1)
    IN  IF offset + 3 + rec_len > Len(data) THEN None
        ELSE IF Len(content) >= 7 /\ Contains(content, Txt80386)
        THEN Some([offset |-> offset, header_type |-> COMENT, confidence |-> 70,
                   estimated_size |-> Some(3 + rec_len)])
        ELSE None

\* scan_for_omf, lines 163-175: the candidate at the offset of the generator g.
scan_candidate(g) ==
    IF g.data[g.offset + 1] \in {THEADR, LHEADR} THEN check_theadr(g.data, g.offset)
    ELSE IF g.data[g.offset + 1] = LIBHDR THEN check_libhdr(g.data, g.offset)
    ELSE IF g.offset + 8 <= Len(g.data) /\ g.data[g.offset + 1] = COMENT
            /\ Len(g.data) > g.offset + 4 /\ g.data[g.offset + 5] = EASY_OMF_CLASS
    THEN check_easy_omf_marker(g.data, g.offset)
    ELSE None

\* scan_for_omf whose every iteration moves the offset by one
ScanForOmfStepByOne(g) ==
    LET candidate == scan_candidate(g)
    IN  IF candidate # None /\ candidate[1].confidence >= g.min_confidence
        THEN [g EXCEPT !.yielded = Append(@, candidate[1]), !.offset = @ + 1]
        ELSE [g EXCEPT !.offset = @ + 1]

\* scan_for_omf, lines 162-183: one iteration of the while statement.  The
\* generator g is the data, the offset, min_confidence and the candidates
\* yielded so far.
scan_for_omf_step(g) ==
    LET candidate == scan_candidate(g)
    IN  IF candidate # None /\ candidate[1].confidence >= g.min_confidence
        THEN IF candidate[1].estimated_size # None /\ candidate[1].estimated_size # Some(0)
             THEN [g EXCEPT !.yielded = Append(@, candidate[1]),
                            !.offset = @ + (IF candidate[1].estimated_size[1] > 1
                                            THEN candidate[1].estimated_size[1] ELSE 1)]
             ELSE [g EXCEPT !.yielded = Append(@, candidate[1]), !.offset = @ + 1]
        ELSE [g EXCEPT !.offset = @ + 1]

-----------------------------------------------------------------------------
(* Input files of the records inside a module: names, groups and data      *)
(* records, after a THEADR or in a library.                                 *)

\* The number of records such a file is made of.
MaxModuleChunks == 3

ModuleChunk(i) ==
    CASE i = 1 -> Good(THEADR, <<1, 65>>)
      [] i = 2 -> <<LIBHDR, 7, 0, 16, 0, 0, 0, 1, 0, 1>>
      [] i = 3 -> Good(LNAMES, <<0, 1, 71>>)
      [] i = 4 -> Good(GRPDEF, <<2, SEGMENT_INDEX, 1>>)
      [] i = 5 -> Good(GRPDEF, <<9>>)
      [] i = 6 -> Good(GRPDEF, <<1, EXTERNAL_INDEX, 0, SEGDEF_INDICES, 1, 1, 1,
                                 LTL, 0, 1, 0, 2, 0, ABSOLUTE, 1, 0, 0, 119>>)
      [] i = 7 -> Good(GRPDEF, <<2, SEGMENT_INDEX>>)

ModuleChunkIds == 1..7

ModuleFile(cs) == Concat([i \in 1..Len(cs) |-> ModuleChunk(cs[i])])

InitModule ==
    /\ chunks \in SeqsUpTo(ModuleChunkIds, MaxModuleChunks)
    /\ scanner = ScanRun(ScannerInit(ModuleFile(chunks)))
    /\ omf = OMFFile(scanner)
    /\ sub = SubIdle
    /\ result = << >>
    /\ ri = 0
    /\ dispatched = << >>
    /\ pc = "dispatch"

ParseGrpdef == Dispatch("handle_grpdef") /\ Step(handle_grpdef(omf, CurRecord))

IterGrpdef == Iterate("handle_grpdef") /\ Step(handle_grpdef_body(omf, sub, result))

NextModule ==
    \/ ParseTheadr \/ ParseLibhdr
    \/ ParseLnames \/ IterLnames
    \/ ParseGrpdef \/ IterGrpdef
    \/ ParseReturn

SpecModule == InitModule /\ [][NextModule]_vars

-----------------------------------------------------------------------------
(* Properties of the records inside a module.                              *)

\* The largest value of an index field (parse_index).
MaxIndex == HIGH_MASK * 256 + 255

\* Indices inside the tables, just outside them, and the largest one.
LookupIndices == 0..4 \cup {MaxIndex}

\* C11: the table lookups get_lname, get_segdef, get_grpdef, get_extdef and
\* get_typdef give a string that is never empty, for every index from 0 to
\* 0x7FFF: the stored name inside the table, a placeholder outside it.
C11_LookupsAreNeverEmpty ==
    \A i \in LookupIndices :
        /\ get_lname(omf, i) # << >>
        /\ get_segdef(omf, i) # << >>
        /\ get_grpdef(omf, i) # << >>
        /\ get_extdef(omf, i) # << >>
        /\ get_typdef(omf, i) # << >>

-----------------------------------------------------------------------------
(* Specification of the byte cursor: a RecordParser over a content slice,  *)
(* and any sequence of its operations.  result is the last operation: its  *)
(* name, its argument, the offset before it and the value it returned.     *)

\* The length of the content slices.
MaxContentLen == 3

\* Bytes of every kind the operations tell apart: zero, a short length, the
\* two-byte index flag (also the largest one-byte integer), the three
\* markers of a longer integer, and the largest byte.
CursorBytes == {0, 2, TWO_BYTE_FLAG, MARKER_2BYTE, MARKER_3BYTE, MARKER_4BYTE, 255}

InitCursor ==
    /\ \E data \in UNION {[1..n -> CursorBytes] : n \in 0..MaxContentLen} :
       \E variant \in {TIS_STANDARD, PHARLAP, IBM_LINK386} :
           sub = RecordParser(data, variant)
    /\ result = << >>
    /\ scanner = ScannerInit(<< >>)
    /\ omf = OmfIdle
    /\ ri = 0
    /\ dispatched = << >>
    /\ pc = "cursor"
    /\ chunks = << >>

CursorOp(op, arg, r) ==
    /\ pc = "cursor"
    /\ sub' = r.p
    /\ result' = [op |-> op, arg |-> arg, before |-> sub.offset, v |-> r.v]
    /\ UNCHANGED <<scanner, omf, ri, dispatched, pc, chunks>>

CursorReadByte == CursorOp("read_byte", 0, read_byte(sub))

CursorReadBytes == \E n \in 0..(MaxContentLen + 1) : CursorOp("read_bytes", n, read_bytes(sub, n))

CursorPeekByte == CursorOp("peek_byte", 0, peek_byte(sub))

CursorParseIndex == CursorOp("parse_index", 0, parse_index(sub))

CursorParseName == CursorOp("parse_name", 0, parse_name(sub))

CursorParseNumeric == \E n \in 1..4 : CursorOp("parse_numeric", n, parse_numeric(sub, n))

CursorParseVarlen ==
    CursorOp("parse_variable_length_int", 0, parse_variable_length_int(sub))

NextCursor ==
    \/ CursorReadByte \/ CursorReadBytes \/ CursorPeekByte
    \/ CursorParseIndex \/ CursorParseName
    \/ CursorParseNumeric \/ CursorParseVarlen

SpecCursor == InitCursor /\ [][NextCursor]_vars

\* The bytes an operation had before it when it started.
LeftBefore == Len(sub.data) - result.before

\* C12: after any sequence of cursor operations the offset is inside the
\* content slice, 0 <= offset <= len(data); an operation never moves the
\* cursor back, what read_byte, read_bytes and peek_byte return are the bytes
\* of the slice at the cursor, and an operation that finds fewer bytes than it
\* needs returns None, 0 or the empty string.
C12_CursorStaysInsideContent ==
    /\ 0 <= sub.offset /\ sub.offset <= Len(sub.data)
    /\ result # << >> =>
        /\ result.before <= sub.offset
        /\ result.op \in {"read_byte", "peek_byte"} =>
               IF LeftBefore = 0 THEN result.v = None /\ sub.offset = result.before
               ELSE result.v = Some(sub.data[result.before + 1])
        /\ result.op = "read_bytes" =>
               IF result.arg > LeftBefore THEN result.v = None /\ sub.offset = result.before
               ELSE /\ result.v = Some(SubSeq(sub.data, result.before + 1, sub.offset))
                    /\ sub.offset = result.before + result.arg
        /\ (result.op = "parse_numeric" /\ result.arg > LeftBefore) =>
               result.v = 0 /\ sub.offset = result.before
        /\ (result.op \in {"parse_index", "parse_variable_length_int"} /\ LeftBefore = 0) =>
               result.v = 0 /\ sub.offset = result.before
        /\ (result.op = "parse_name"
              /\ (LeftBefore = 0 \/ sub.data[result.before + 1] > LeftBefore - 1)) =>
               result.v = << >>

\* A read that asked for more bytes than were left, after the cursor had moved.
C12_Witness ==
    /\ result # << >>
    /\ result.op = "read_bytes"
    /\ result.before > 0
    /\ result.arg > LeftBefore
    /\ sub.offset = result.before

-----------------------------------------------------------------------------
(* Specification of one FIXUPP record: a file of a THEADR, in a PharLap     *)
(* file the Easy OMF comment, and one FIXUPP or FIXUPP32 record whose       *)
(* content is a sequence of THREAD and FIXUP subrecords.  chunks is the kind *)
(* of the file and then the subrecords.                                     *)

\* The number of subrecords of the FIXUPP record.
MaxSubrecords == 3

\* A subrecord: its bytes and what the bytes say.  t is 1 for a target THREAD
\* or a FIXUP with the T bit, n the thread slot or target field, method and
\* datum those of a THREAD, pbit the P bit of a FIXUP.
FixuppSub(i) ==
    CASE i = 1 -> [bytes |-> <<8, 5>>, kind |-> "THREAD", t |-> 1, n |-> 0,
                   method |-> 2, datum |-> Some(5), pbit |-> 0]
      [] i = 2 -> [bytes |-> <<4, 7>>, kind |-> "THREAD", t |-> 1, n |-> 0,
                   method |-> 1, datum |-> Some(7), pbit |-> 0]
      [] i = 3 -> [bytes |-> <<64, 1>>, kind |-> "THREAD", t |-> 0, n |-> 0,
                   method |-> 0, datum |-> Some(1), pbit |-> 0]
      [] i = 4 -> [bytes |-> <<25>>, kind |-> "THREAD", t |-> 1, n |-> 1,
                   method |-> 6, datum |-> None, pbit |-> 0]
      [] i = 5 -> [bytes |-> <<196, 0, 136, 0, 0>>, kind |-> "FIXUP", t |-> 1, n |-> 0,
                   method |-> 0, datum |-> None, pbit |-> 0]
      [] i = 6 -> [bytes |-> <<196, 0, 140>>, kind |-> "FIXUP", t |-> 1, n |-> 0,
                   method |-> 0, datum |-> None, pbit |-> 1]
      [] i = 7 -> [bytes |-> <<196, 0, 4, 1, 1>>, kind |-> "FIXUP", t |-> 0, n |-> 0,
                   method |-> 0, datum |-> None, pbit |-> 1]
      [] i = 8 -> [bytes |-> <<212, 0, 141>>, kind |-> "FIXUP", t |-> 1, n |-> 1,
                   method |-> 0, datum |-> None, pbit |-> 1]
      [] i = 9 -> [bytes |-> <<196>>, kind |-> "FIXUP", t |-> 0, n |-> 0,
                   method |-> 0, datum |-> None, pbit |-> 0]

FixuppSubIds == 1..9

\* Kinds of file: 1 a FIXUPP record, 2 a FIXUPP record in a PharLap file, 3 a
\* FIXUPP32 record.
FixuppFileKinds == 1..3

FixuppFile(cs) ==
    Good(THEADR, <<1, 65>>)
    \o (IF cs[1] = 2 THEN Good(COMENT, <<0, EASY_OMF_CLASS>>) ELSE << >>)
    \o Good(IF cs[1] = 3 THEN FIXUPP32 ELSE FIXUPP,
            Concat([i \in 1..(Len(cs) - 1) |-> FixuppSub(cs[i + 1]).bytes]))

InitFixupp ==
    /\ \E k \in FixuppFileKinds : \E subs \in SeqsUpTo(FixuppSubIds, MaxSubrecords) :
           chunks = <<k>> \o subs
    /\ scanner = ScanRun(ScannerInit(FixuppFile(chunks)))
    /\ omf = OMFFile(scanner)
    /\ sub = SubIdle
    /\ result = << >>
    /\ ri = 0
    /\ dispatched = << >>
    /\ pc = "dispatch"

ParseFixupp == Dispatch("handle_fixupp") /\ Step(handle_fixupp(omf, CurRecord))

IterFixupp == Iterate("handle_fixupp") /\ Step(handle_fixupp_body(omf, sub, result))

NextFixupp ==
    \/ ParseTheadr \/ ParseComent
    \/ ParseFixupp \/ IterFixupp
    \/ ParseReturn

SpecFixupp == InitFixupp /\ [][NextFixupp]_vars

\* The subrecords of the FIXUPP record of the file.
SubsOfFile == [i \in 1..(Len(chunks) - 1) |-> FixuppSub(chunks[i + 1])]

\* The target THREAD subrecords for slot n before subrecord k.
TargetThreadsBefore(k, n) ==
    {j \in 1..(k - 1) : SubsOfFile[j].kind = "THREAD" /\ SubsOfFile[j].t = 1
                        /\ SubsOfFile[j].n = n}

\* The decoder has returned from the FIXUPP record, the last record of the file.
FixuppDecoded == pc = "done"

\* C13: within one FIXUPP record, a FIXUP with the T bit set and target field
\* n has for target datum the datum of the most recent target THREAD before
\* it for slot n, and for target method that thread's method AND 3, OR the P
\* bit shifted left by 2.
C13_ThreadedTargetIsResolved ==
    FixuppDecoded =>
        \A k \in 1..Len(SubsOfFile) :
            (SubsOfFile[k].kind = "FIXUP" /\ SubsOfFile[k].t = 1
               /\ TargetThreadsBefore(k, SubsOfFile[k].n) # {}) =>
                LET j == CHOOSE j \in TargetThreadsBefore(k, SubsOfFile[k].n) :
                             \A i \in TargetThreadsBefore(k, SubsOfFile[k].n) : i <= j
                IN  /\ Len(result.subrecords) >= k
                    /\ result.subrecords[k].sub = "FIXUP"
                    /\ result.subrecords[k].target_datum = SubsOfFile[j].datum
                    /\ result.subrecords[k].target_method =
                           (SubsOfFile[j].method % (TARGET_MASK + 1))
                               + SubsOfFile[k].pbit * (2 ^ P_BIT_SHIFT)

\* Subrecord k of the file is a FIXUP with its three leading bytes present,
\* and every subrecord before it is a THREAD.
IsFirstFixup(k) ==
    /\ SubsOfFile[k].kind = "FIXUP" /\ Len(SubsOfFile[k].bytes) >= 3
    /\ \A j \in 1..(k - 1) : SubsOfFile[j].kind = "THREAD"

\* The target method subrecord k resolves to: the method of the thread it
\* names (0 for an empty slot) or its own target field, with the P bit as
\* bit 2.
ResolvedTargetMethod(k) ==
    LET fix_dat == SubsOfFile[k].bytes[3]
        before == TargetThreadsBefore(k, SubsOfFile[k].n)
        base == IF SubsOfFile[k].t = 0 THEN fix_dat % (TARGET_MASK + 1)
                ELSE IF before = {} THEN 0
                ELSE SubsOfFile[CHOOSE j \in before : \A i \in before : i <= j].method
                         % (TARGET_MASK + 1)
    IN  base + SubsOfFile[k].pbit * (2 ^ P_BIT_SHIFT)

\* C25: a FIXUP subrecord is decoded with a displacement exactly when its
\* resolved target method (after the thread lookup, with the P bit) is less
\* than 4, and with an explicit frame datum exactly when its F bit is clear
\* and its frame method is less than 3.
C25_DisplacementIffPrimaryTarget ==
    FixuppDecoded =>
        \A k \in 1..Len(SubsOfFile) :
            IsFirstFixup(k) =>
                LET fix_dat == SubsOfFile[k].bytes[3]
                IN  /\ Len(result.subrecords) >= k
                    /\ result.subrecords[k].sub = "FIXUP"
                    /\ result.subrecords[k].displacement # None
                           <=> ResolvedTargetMethod(k) < 4
                    /\ result.subrecords[k].frame_source = "Explicit"
                           => (result.subrecords[k].frame_datum # None
                                   <=> Bits(fix_dat, FRAME_SHIFT, FRAME_MASK) < 3)

\* C26: a FIXUP with the T bit that names a target slot no THREAD of its
\* record has set is decoded without an exception: its target datum is absent
\* and its target method is the P bit alone.
C26_EmptySlotResolvesToDefault ==
    FixuppDecoded =>
        \A k \in 1..Len(SubsOfFile) :
            (IsFirstFixup(k) /\ SubsOfFile[k].t = 1
               /\ TargetThreadsBefore(k, SubsOfFile[k].n) = {}
               /\ \A j \in 1..(k - 1) : SubsOfFile[j].t = 1 /\ SubsOfFile[j].method < 4) =>
                /\ omf.errors = << >>
                /\ Len(result.subrecords) >= k
                /\ result.subrecords[k].sub = "FIXUP"
                /\ result.subrecords[k].target_datum = None
                /\ result.subrecords[k].target_method
                       = SubsOfFile[k].pbit * (2 ^ P_BIT_SHIFT)

-----------------------------------------------------------------------------
(* Specification of one LIDATA record: a file of a THEADR, in a PharLap     *)
(* file the Easy OMF comment, and one LIDATA or LIDATA32 record for segment *)
(* 1 whose content is a sequence of data blocks, whole or with its last     *)
(* bytes missing.  chunks is the kind of the file, the number of missing    *)
(* bytes, and then the blocks.                                              *)

\* The number of top-level blocks of the LIDATA record.
MaxBlocks == 2

\* The number of bytes missing at the end of the content.
MaxCut == 8

\* A data block: a leaf with its repeat count and content, or a block with its
\* repeat count and nested blocks.
LidataBlock(i) ==
    CASE i = 1 -> <<"leaf", 2, <<65, 66>>>>
      [] i = 2 -> <<"node", 3, << <<"leaf", 2, <<65, 66>>>>, <<"leaf", 4, <<67>>>> >>>>
      [] i = 3 -> <<"node", 2, << <<"node", 3, << <<"node", 2,
                        << <<"leaf", 5, <<88>>>> >> >> >> >> >>>>
      [] i = 4 -> <<"leaf", 0, <<90>>>>
      [] i = 5 -> <<"node", 2, << <<"leaf", 1, << >>>>,
                                  <<"node", 1, << <<"leaf", 3, <<81, 81>>>> >>>> >>>>

LidataBlockIds == 1..5

\* struct.pack of a little-endian unsigned integer of size bytes.
RECURSIVE PackLE(_, _)
PackLE(n, size) == IF size = 0 THEN << >> ELSE <<n % 256>> \o PackLE(n \div 256, size - 1)

\* The bytes of a data block whose repeat count takes repeat_size bytes: the
\* layout parse_data_block reads.
RECURSIVE EncodeBlock(_, _)
EncodeBlock(b, repeat_size) ==
    IF b[1] = "leaf"
    THEN PackLE(b[2], repeat_size) \o <<0, 0>> \o <<Len(b[3])>> \o b[3]
    ELSE PackLE(b[2], repeat_size) \o PackLE(Len(b[3]), 2)
             \o Concat([i \in 1..Len(b[3]) |-> EncodeBlock(b[3][i], repeat_size)])

\* Kinds of file: 1 LIDATA, 2 LIDATA in a PharLap file, 3 LIDATA32, 4 LIDATA32
\* in a PharLap file.
LidataFileKinds == 1..4

LidataContent(cs) ==
    LET variant == IF cs[1] \in {2, 4} THEN PHARLAP ELSE TIS_STANDARD
        is_32bit == cs[1] \in {3, 4}
        whole == <<1>> \o PackLE(16, offset_field_size(variant, is_32bit))
                     \o Concat([i \in 1..(Len(cs) - 2) |->
                                   EncodeBlock(LidataBlock(cs[i + 2]),
                                               lidata_repeat_count_size(variant, is_32bit))])
    IN  SubSeq(whole, 1, Len(whole) - cs[2])

LidataFile(cs) ==
    Good(THEADR, <<1, 65>>)
    \o (IF cs[1] \in {2, 4} THEN Good(COMENT, <<0, EASY_OMF_CLASS>>) ELSE << >>)
    \o Good(IF cs[1] \in {3, 4} THEN LIDATA32 ELSE LIDATA, LidataContent(cs))

InitLidata ==
    /\ \E k \in LidataFileKinds : \E cut \in 0..MaxCut :
       \E blocks \in SeqsUpTo(LidataBlockIds, MaxBlocks) :
           chunks = <<k, cut>> \o blocks
    /\ scanner = ScanRun(ScannerInit(LidataFile(chunks)))
    /\ omf = OMFFile(scanner)
    /\ sub = SubIdle
    /\ result = << >>
    /\ ri = 0
    /\ dispatched = << >>
    /\ pc = "dispatch"

ParseLidata == Dispatch("handle_lidata") /\ Step(handle_lidata(omf, CurRecord))

NextLidata == ParseTheadr \/ ParseComent \/ ParseLidata \/ ParseReturn

SpecLidata == InitLidata /\ [][NextLidata]_vars

\* The size a block expands to, leaf by leaf: the length of the content of
\* each leaf times the product of the repeat counts on the path to it.
RECURSIVE LeafProductSize(_, _)
LeafProductSize(b, product) ==
    IF b[1] = "leaf" THEN product * b[2] * Len(b[3])
    ELSE SumSeq([i \in 1..Len(b[3]) |-> LeafProductSize(b[3][i], product * b[2])])

\* expanded_size of a decoded block and of every block nested in it is the
\* repeat count times the content length, or times the sum over the nested blocks.
RECURSIVE BlockSizesRight(_)
BlockSizesRight(b) ==
    /\ b.expanded_size =
           IF b.block_count = 0
           THEN b.repeat_count * (IF b.content = None THEN 0 ELSE Len(b.content[1]))
           ELSE b.repeat_count * SumSeq([i \in 1..Len(b.nested_blocks) |->
                                             b.nested_blocks[i].expanded_size])
    /\ \A i \in 1..Len(b.nested_blocks) : BlockSizesRight(b.nested_blocks[i])

\* The decoder has returned from the LIDATA record, the last record of the file.
LidataDecoded == pc = "done"

\* C14: total_expanded_size of a LIDATA/LIDATA32 record is the sum of the
\* expanded sizes of its top-level blocks, the expanded size of a block being
\* its repeat count times the length of its content when it has no nested
\* blocks and times the sum over its nested blocks otherwise; for a record
\* whose content is whole, each leaf contributes its content length times the
\* product of the repeat counts on its path, at any depth.
C14_ExpandedSizeIsLeafProducts ==
    LidataDecoded =>
        /\ \A i \in 1..Len(result.blocks) : BlockSizesRight(result.blocks[i])
        /\ result.total_expanded_size =
               SumSeq([i \in 1..Len(result.blocks) |-> result.blocks[i].expanded_size])
        /\ chunks[2] = 0 =>
               result.total_expanded_size =
                   SumSeq([i \in 1..(Len(chunks) - 2) |->
                               LeafProductSize(LidataBlock(chunks[i + 2]), 1)])

\* The warnings of the decoded record about its data blocks: all but the one
\* about a segment index of zero.
BlockWarningCount ==
    Len(result.warnings) - (IF result.segment_index = 0 THEN 1 ELSE 0)

\* C21: a LIDATA record whose data blocks are truncated, at any nesting
\* level, gets one warning for the truncation and no more: no decoded LIDATA
\* record carries two warnings about its blocks.
C21_TruncationIsRecordedOnce ==
    LidataDecoded => BlockWarningCount <= 1

\* The example of two leaves under repeat 3 (24 bytes) followed by a block
\* nested four levels deep (60 bytes), decoded whole.
C14_Witness ==
    /\ LidataDecoded
    /\ chunks = <<1, 0, 2, 3>>
    /\ Len(result.blocks) = 2
    /\ result.blocks[1].expanded_size = 24
    /\ result.total_expanded_size = 84

-----------------------------------------------------------------------------
(* Specification of format detection: detect_omf on a buffer, and then the *)
(* generator scan_for_omf over the same buffer, one iteration at a step.    *)
(* sub is the generator and result what detect_omf returned.                *)

\* The number of chunks a buffer is made of.
MaxDetectChunks == 3

DetectChunk(i) ==
    CASE i = 1 -> Good(THEADR, <<2, 65, 66>>)
      [] i = 2 -> Good(THEADR, <<3, 65, 46, 67>>)
      [] i = 3 -> Rec(THEADR, <<1, 65>>, BadChk(THEADR, <<1, 65>>))
      [] i = 4 -> Good(LHEADR, <<1, 200>>)
      [] i = 5 -> Good(COMENT, <<0, 0, 77, 65, 83, 77>>)
      [] i = 6 -> Good(COMENT, <<0, EASY_OMF_CLASS>> \o Txt80386)
      [] i = 7 -> Good(MODEND, <<0>>)
      [] i = 8 -> <<LIBHDR, 13, 0, 13, 0, 20, 0, 0, 0, 1, 0, 0, 0, 0, 0, 7>>
      [] i = 9 -> <<0>>
      [] i = 10 -> <<THEADR, 0, 0>>
      [] i = 11 -> <<THEADR, 9, 0, 1>>
      [] i = 12 -> <<1, 2>>
      [] i = 13 -> Good(THEADR, <<2, 65, 66>>) \o Good(LHEADR, <<2, 67, 68>>)
                       \o Good(MODEND, <<0>>)

DetectChunkIds == 1..13

DetectBuffer(cs) == Concat([i \in 1..Len(cs) |-> DetectChunk(cs[i])])

\* min_confidence of scan_for_omf, in hundredths: the default and a larger one.
MinConfidences == {50, 60}

InitDetect ==
    /\ chunks \in SeqsUpTo(DetectChunkIds, MaxDetectChunks)
    /\ \E mc \in MinConfidences :
           sub = [data |-> DetectBuffer(chunks), offset |-> 0, min_confidence |-> mc,
                  yielded |-> << >>]
    /\ result = << >>
    /\ scanner = ScannerInit(<< >>)
    /\ omf = OmfIdle
    /\ ri = 0
    /\ dispatched = << >>
    /\ pc = "detect"

\* detect_omf(data), with the default check_depth
DetectOmf ==
    /\ pc = "detect"
    /\ result' = detect_omf(sub.data, 3)
    /\ pc' = "scan"
    /\ UNCHANGED <<scanner, omf, sub, ri, dispatched, chunks>>

\* scan_for_omf: one iteration of the while statement
ScanForOmfNext ==
    /\ pc = "scan"
    /\ sub.offset < Len(sub.data) - 4
    /\ sub' = scan_for_omf_step(sub)
    /\ UNCHANGED <<scanner, omf, result, ri, dispatched, pc, chunks>>

\* scan_for_omf: the while statement ends and the generator is exhausted
ScanForOmfReturn ==
    /\ pc = "scan"
    /\ ~(sub.offset < Len(sub.data) - 4)
    /\ pc' = "done"
    /\ UNCHANGED <<scanner, omf, sub, result, ri, dispatched, chunks>>

NextDetect == DetectOmf \/ ScanForOmfNext \/ ScanForOmfReturn

SpecDetect == InitDetect /\ [][NextDetect]_vars

\* C15: detect_omf reports OMF exactly when the confidence it returns is at
\* least 0.5, the confidence lies between 0 and 1, and a buffer whose first
\* byte is not THEADR, LHEADR or LIBHDR is reported as not OMF.
C15_IsOmfIffConfident ==
    result # << >> =>
        /\ result.is_omf <=> result.confidence >= 50
        /\ 0 <= result.confidence /\ result.confidence <= 100
        /\ (sub.data = << >> \/ sub.data[1] \notin {THEADR, LHEADR, LIBHDR}) => ~result.is_omf

\* A buffer accepted at exactly the threshold, and one refused just under it.
C15_Witness ==
    /\ result # << >>
    /\ result.is_omf
    /\ result.confidence = 50

\* C16: scan_for_omf yields its candidates in strictly increasing offset
\* order; after a candidate at offset o with estimated size s the cursor has
\* advanced by s, so no later candidate lies inside [o, o + s); and the scan
\* reaches the end of the buffer.
C16_CandidatesDoNotNest ==
    /\ \A i \in 1..Len(sub.yielded) : \A j \in (i + 1)..Len(sub.yielded) :
           /\ sub.yielded[i].offset < sub.yielded[j].offset
           /\ sub.yielded[i].estimated_size # None =>
                  sub.yielded[j].offset
                      >= sub.yielded[i].offset + sub.yielded[i].estimated_size[1]
    /\ sub.yielded # << >> =>
           LET last == sub.yielded[Len(sub.yielded)]
           IN  /\ sub.offset > last.offset
               /\ last.estimated_size # None =>
                      sub.offset >= last.offset + last.estimated_size[1]
    /\ pc = "done" => sub.offset >= Len(sub.data) - 4

\* A candidate with an estimated size that holds a second header inside it,
\* and a later candidate after it.
C16_Witness ==
    /\ pc = "done"
    /\ Len(sub.yielded) >= 2
    /\ sub.yielded[1].estimated_size # None
    /\ \E o \in (sub.yielded[1].offset + 1)
                    ..(sub.yielded[1].offset + sub.yielded[1].estimated_size[1] - 1) :
           sub.data[o + 1] \in {THEADR, LHEADR} /\ check_theadr(sub.data, o) # None

\* Records i.. of the buffer from offset pos on, count of them at most and up
\* to a MODEND, MODEND32 or LIBEND, are all valid: a known type, a length that
\* is not zero and fits in the buffer, and a checksum that is valid or zero
\* (LIBHDR and LIBEND have none).  The chain may end with the buffer.
RECURSIVE EveryChainRecordValid(_, _, _, _, _)
EveryChainRecordValid(data, pos0, i, count, is_library) ==
    LET pos == IF is_library THEN SkipZeroBytes(data, pos0) ELSE pos0
    IN  \/ i >= count
        \/ pos >= Len(data)
        \/ /\ pos + 3 <= Len(data)
           /\ data[pos + 1] \in VALID_RECORD_TYPES
           /\ LET rec_len == Unpack16(Slice(data, pos + 1, pos + 3))
              IN  /\ rec_len # 0
                  /\ pos + 3 + rec_len <= Len(data)
                  /\ \/ data[pos + 1] \in {LIBHDR, LIBEND}
                     \/ ChecksumAccepted(Slice(data, pos, pos + 3 + rec_len))
                  /\ \/ data[pos + 1] \in {MODEND, MODEND32, LIBEND}
                     \/ EveryChainRecordValid(data, pos + 3 + rec_len, i + 1, count,
                                              is_library)

\* The confidences that hold both the checksum bonus and the chain bonus:
\* 0.4 and 0.2, with a name bonus of 0, 0.15 or 0.3.
ConfidencesWithChainBonus == {60, 75, 90}

\* C22: detect_omf adds the chain bonus only if each of the check_depth (3)
\* records from offset 0, up to a terminating MODEND, MODEND32 or LIBEND, has a
\* known type, a non-zero length that fits in the buffer and a valid or zero
\* checksum: one invalid record among them withholds the bonus.
C22_ChainBonusNeedsEveryRecordValid ==
    (result # << >> /\ pc \in {"scan", "done"}
         /\ result.confidence \in ConfidencesWithChainBonus) =>
        EveryChainRecordValid(sub.data, 0, 0, 3, sub.data[1] = LIBHDR)

-----------------------------------------------------------------------------
(* Specification of the field widths: a file of a THEADR, a COMENT that     *)
(* makes the file PharLap or IBM (or none), and one data record whose       *)
(* content is 16-bit words followed by zero bytes.  chunks is the kind of   *)
(* the file, the kind of the record, and then the words.                    *)

\* The number of words of the data record.
MaxFieldWords == 4

\* The values of a word: small, so that a block count read from any of them
\* is small.
FieldWordValues == {0, 1, 2}

\* Kinds of file: 1 TIS, 2 PharLap (the Easy OMF comment), 3 IBM (a
\* translator comment naming it).
WidthFileKinds == 1..3

\* Kinds of record.
WidthRecordTypes == <<LEDATA, LEDATA32, LIDATA, LIDATA32, REDATA, PEDATA>>

WidthRecordType(cs) == WidthRecordTypes[cs[2]]

\* The content of the data record: segment index 1 (PEDATA has none), the
\* words in little-endian order, and zero bytes up to the longest layout.
WidthContent(cs) ==
    (IF WidthRecordType(cs) = PEDATA THEN << >> ELSE <<1>>)
    \o Concat([i \in 1..(Len(cs) - 2) |-> PackLE(cs[i + 2], 2)]) \o <<0, 0, 0>>

WidthFile(cs) ==
    Good(THEADR, <<1, 65>>)
    \o (CASE cs[1] = 1 -> << >>
          [] cs[1] = 2 -> Good(COMENT, <<0, EASY_OMF_CLASS>>)
          [] cs[1] = 3 -> Good(COMENT, <<0, 0>> \o TxtIbm))
    \o Good(WidthRecordType(cs), WidthContent(cs))

InitWidth ==
    /\ \E k \in WidthFileKinds : \E t \in 1..Len(WidthRecordTypes) :
       \E words \in [1..MaxFieldWords -> FieldWordValues] :
           chunks = <<k, t>> \o words
    /\ scanner = ScanRun(ScannerInit(WidthFile(chunks)))
    /\ omf = OMFFile(scanner)
    /\ sub = SubIdle
    /\ result = << >>
    /\ ri = 0
    /\ dispatched = << >>
    /\ pc = "dispatch"

ParseLedata == Dispatch("handle_ledata") /\ Step(handle_ledata(omf, CurRecord))

ParseRedataPedata ==
    Dispatch("handle_redata_pedata") /\ Step(handle_redata_pedata(omf, CurRecord))

NextWidth ==
    \/ ParseTheadr \/ ParseComent \/ ParseLedata \/ ParseLidata \/ ParseRedataPedata
    \/ ParseReturn

SpecWidth == InitWidth /\ [][NextWidth]_vars

\* The decoder has returned from the data record, the last record of the file.
WidthDecoded == pc = "done"

\* The little-endian value of the w bytes of the content from offset from.
FieldAt(content, from, w) == UnpackLE(SubSeq(content, from + 1, from + w))

\* The width of an offset field: 2 for a 16-bit and 4 for a 32-bit record in a
\* TIS or IBM file, 4 in a PharLap file.
StatedOffsetWidth(variant, is_32bit) ==
    IF variant \in {TIS_STANDARD, IBM_LINK386} THEN (IF is_32bit THEN 4 ELSE 2) ELSE 4

\* The width of a LIDATA repeat count: 2 for a 16-bit and 4 for a 32-bit
\* record, 2 in a PharLap file.
StatedRepeatWidth(variant, is_32bit) ==
    IF variant = PHARLAP THEN 2 ELSE IF is_32bit THEN 4 ELSE 2

\* The decoded record has the values of fields of the stated widths, the
\* offset of REDATA and PEDATA being obsolete_width bytes wide.
DecodedAtWidths(obsolete_width) ==
    LET type == WidthRecordType(chunks)
        content == WidthContent(chunks)
        is_32bit == type \in {LEDATA32, LIDATA32}
        w == StatedOffsetWidth(omf.variant, is_32bit)
        rw == StatedRepeatWidth(omf.variant, is_32bit)
    IN  /\ type \in {LEDATA, LEDATA32} =>
               /\ result.offset = FieldAt(content, 1, w)
               /\ result.data_length = Len(content) - 1 - w
        /\ type \in {LIDATA, LIDATA32} =>
               /\ result.offset = FieldAt(content, 1, w)
               /\ result.blocks # << >> =>
                      result.blocks[1].repeat_count = FieldAt(content, 1 + w, rw)
        /\ type = REDATA =>
               /\ result.offset = FieldAt(content, 1, obsolete_width)
               /\ result.data_length = Len(content) - 1 - obsolete_width
        /\ type = PEDATA =>
               /\ result.offset = FieldAt(content, 2, obsolete_width)
               /\ result.data_length = Len(content) - 2 - obsolete_width

-----------------------------------------------------------------------------
(* Specification of the handler registries: any sequence of registrations   *)
(* with omf_record and coment_class and of lookups with get_record_handler  *)
(* and get_coment_handler.  omf is the two registries and the number of     *)
(* functions defined so far; result is the last operation: its name, its    *)
(* keys or key, its features, the handler it gave and the exception it      *)
(* raised.                                                                  *)

\* The number of decorated functions.
MaxRegistrations == 3

\* The record types or comment classes of a decorator: one or two.
RegistryKeys == {0, 1}
RegistryKeySeqs == {<<0>>, <<1>>, <<0, 1>>}

\* The features a handler can require and a file can have.
RegistryFeatures == {<<"easy_omf">>, <<"pharlap">>}

\* defaultdict(list)
EmptyRegistry == [k \in RegistryKeys |-> << >>]

\* omf_record(*record_types, features)(fn), lines 29-34: the for statement from
\* record type i on.
RECURSIVE omf_record_from(_, _, _, _, _)
omf_record_from(registry, record_types, i, required_features, fn) ==
    IF i > Len(record_types) THEN registry
    ELSE omf_record_from(
             [registry EXCEPT ![record_types[i]] =
                  Append(@, [handler |-> fn, features |-> required_features])],
             record_types, i + 1, required_features, fn)

\* omf_record(*record_types, features)(fn)
omf_record(registry, record_types, features, fn) ==
    [registry |-> omf_record_from(registry, record_types, 1, features, fn), exc |-> None]

\* coment_class(*classes, features)(fn), lines 51-63: the for statement from
\* class i on.
RECURSIVE coment_class_from(_, _, _, _, _)
coment_class_from(registry, classes, i, required_features, fn) ==
    IF i > Len(classes) THEN [registry |-> registry, exc |-> None]
    ELSE LET cls == classes[i]
         IN  IF \E e \in 1..Len(registry[cls]) :
                    registry[cls][e].features = required_features
             THEN [registry |-> registry, exc |-> Some("DuplicateHandlerError")]
             ELSE coment_class_from(
                      [registry EXCEPT ![cls] =
                           Append(@, [handler |-> fn, features |-> required_features])],
                      classes, i + 1, required_features, fn)

\* coment_class(*classes, features)(fn)
coment_class(registry, classes, features, fn) ==
    coment_class_from(registry, classes, 1, features, fn)

InitRegistry ==
    /\ omf = [OMF_RECORD_HANDLERS |-> EmptyRegistry,
              COMENT_CLASS_HANDLERS |-> EmptyRegistry, defined |-> 0]
    /\ result = << >>
    /\ scanner = ScannerInit(<< >>)
    /\ sub = SubIdle
    /\ ri = 0
    /\ dispatched = << >>
    /\ pc = "registry"
    /\ chunks = << >>

\* A function decorated with omf_record.
RegisterRecord ==
    /\ pc = "registry" /\ omf.defined < MaxRegistrations
    /\ \E record_types \in RegistryKeySeqs : \E features \in SUBSET RegistryFeatures :
           LET fn == omf.defined + 1
               r == omf_record(omf.OMF_RECORD_HANDLERS, record_types, features, fn)
           IN  /\ omf' = [omf EXCEPT !.OMF_RECORD_HANDLERS = r.registry, !.defined = fn]
               /\ result' = [op |-> "omf_record", keys |-> record_types,
                             features |-> features, v |-> Some(fn), exc |-> r.exc]
    /\ UNCHANGED <<scanner, sub, ri, dispatched, pc, chunks>>

\* A function decorated with coment_class.
RegisterComent ==
    /\ pc = "registry" /\ omf.defined < MaxRegistrations
    /\ \E classes \in RegistryKeySeqs : \E features \in SUBSET RegistryFeatures :
           LET fn == omf.defined + 1
               r == coment_class(omf.COMENT_CLASS_HANDLERS, classes, features, fn)
           IN  /\ omf' = [omf EXCEPT !.COMENT_CLASS_HANDLERS = r.registry, !.defined = fn]
               /\ result' = [op |-> "coment_class", keys |-> classes,
                             features |-> features,
                             v |-> (IF r.exc = None THEN Some(fn) ELSE None),
                             exc |-> r.exc]
    /\ UNCHANGED <<scanner, sub, ri, dispatched, pc, chunks>>

LookupRecord ==
    /\ pc = "registry"
    /\ \E rec_type \in RegistryKeys : \E active_features \in SUBSET RegistryFeatures :
           result' = [op |-> "get_record_handler", keys |-> <<rec_type>>,
                      features |-> active_features,
                      v |-> most_specific_handler(omf.OMF_RECORD_HANDLERS[rec_type],
                                                  active_features),
                      exc |-> None]
    /\ UNCHANGED <<scanner, omf, sub, ri, dispatched, pc, chunks>>

LookupComent ==
    /\ pc = "registry"
    /\ \E cls \in RegistryKeys : \E active_features \in SUBSET RegistryFeatures :
           result' = [op |-> "get_coment_handler", keys |-> <<cls>>,
                      features |-> active_features,
                      v |-> most_specific_handler(omf.COMENT_CLASS_HANDLERS[cls],
                                                  active_features),
                      exc |-> None]
    /\ UNCHANGED <<scanner, omf, sub, ri, dispatched, pc, chunks>>

NextRegistry == RegisterRecord \/ RegisterComent \/ LookupRecord \/ LookupComent

SpecRegistry == InitRegistry /\ [][NextRegistry]_vars

\* The last operation was a lookup.
IsLookup == pc = "registry" /\ result # << >>
            /\ result.op \in {"get_record_handler", "get_coment_handler"}

\* The handlers registered for the key of the last lookup.
LookedUpHandlers ==
    IF result.op = "get_record_handler"
    THEN omf.OMF_RECORD_HANDLERS[result.keys[1]]
    ELSE omf.COMENT_CLASS_HANDLERS[result.keys[1]]

\* The positions of the handlers of the last lookup whose features are active.
MatchingPositions ==
    {i \in 1..Len(LookedUpHandlers) : LookedUpHandlers[i].features \subseteq result.features}

\* C18: get_record_handler and get_coment_handler give a handler registered
\* for the key whose required features are all active and that requires at
\* least as many features as every other such handler, and give None exactly
\* when no handler registered for the key has all its features active.
C18_LookupGivesMostSpecific ==
    IsLookup =>
        /\ result.v = None <=> MatchingPositions = {}
        /\ result.v # None =>
               \E i \in MatchingPositions :
                   /\ LookedUpHandlers[i].handler = result.v[1]
                   /\ \A j \in MatchingPositions :
                          Cardinality(LookedUpHandlers[j].features)
                              <= Cardinality(LookedUpHandlers[i].features)

\* A lookup among three handlers with active features: the one registered
\* last requires the most and is the one given.
C18_Witness ==
    /\ IsLookup
    /\ Cardinality(MatchingPositions) = 3
    /\ result.v = Some(LookedUpHandlers[3].handler)
    /\ Cardinality(LookedUpHandlers[1].features) < Cardinality(LookedUpHandlers[3].features)
    /\ Cardinality(LookedUpHandlers[2].features) < Cardinality(LookedUpHandlers[3].features)

\* C20: the record-handler registry never holds two handlers for one record
\* type that require the same features: the registration of the second one
\* is rejected with a duplicate-handler error.
C20_RecordRegistryHasNoTies ==
    pc = "registry" =>
        \A k \in RegistryKeys :
            \A i, j \in 1..Len(omf.OMF_RECORD_HANDLERS[k]) :
                i # j => omf.OMF_RECORD_HANDLERS[k][i].features
                             # omf.OMF_RECORD_HANDLERS[k][j].features

-----------------------------------------------------------------------------
(* Specification of the data records of successive modules: a file, a       *)
(* library or not, of module headers, LEDATA, LIDATA and FIXUPP records.    *)
(* chunks is the kind of the file and then its records.                     *)

\* The number of records after the library header.
MaxDataChunks == 4

DataChunk(i) ==
    CASE i = 1 -> Good(THEADR, <<1, 65>>)
      [] i = 2 -> Good(LHEADR, <<1, 66>>)
      [] i = 3 -> Good(LEDATA, <<1, 16, 0, 65>>)
      [] i = 4 -> Good(LIDATA, <<2, 32, 0, 2, 0, 0, 0, 1, 66>>)
      [] i = 5 -> Good(FIXUPP, <<8, 5>>)

DataChunkIds == 1..5

\* Kinds of file: 1 an object file, 2 a library (a LIBHDR first).
DataFileKinds == 1..2

DataFile(cs) ==
    (IF cs[1] = 2 THEN <<LIBHDR, 7, 0, 16, 0, 0, 0, 1, 0, 1>> ELSE << >>)
    \o Concat([i \in 1..(Len(cs) - 1) |-> DataChunk(cs[i + 1])])

InitData ==
    /\ \E k \in DataFileKinds : \E cs \in SeqsUpTo(DataChunkIds, MaxDataChunks) :
           chunks = <<k>> \o cs
    /\ scanner = ScanRun(ScannerInit(DataFile(chunks)))
    /\ omf = OMFFile(scanner)
    /\ sub = SubIdle
    /\ result = << >>
    /\ ri = 0
    /\ dispatched = << >>
    /\ pc = "dispatch"

NextData ==
    \/ ParseLibhdr \/ ParseTheadr
    \/ ParseLedata \/ ParseLidata
    \/ ParseFixupp \/ IterFixupp
    \/ ParseReturn

SpecData == InitData /\ [][NextData]_vars

\* parse() has just returned from the decoder of a THEADR or LHEADR record.
AfterModuleHeader ==
    /\ pc = "dispatch" /\ ri > 0
    /\ omf.records[ri].type \in {THEADR, LHEADR}

\* C19: in a library, when a THEADR or LHEADR record has been processed in
\* Phase 2, last_data_record is empty: what a LEDATA or LIDATA of the module
\* before left there is gone before any record of the new module is decoded.
C19_ModuleHeaderResetsLastDataRecord ==
    (AfterModuleHeader /\ omf.is_library) => omf.last_data_record = None

-----------------------------------------------------------------------------
(* Properties of the scan: warnings, variants and the layout of the        *)
(* records (specification Spec).                                           *)

\* Record i (from 0) of the scan is an Easy OMF marker: a COMENT of class 0xAA.
IsEasyOmfMarker(i) ==
    LET r == scanner.records[i + 1]
    IN  r.type = COMENT /\ Len(r.content) >= 2 /\ r.content[2] = EASY_OMF_CLASS

\* Record i (from 0) comes directly after a THEADR or LHEADR.
FollowsModuleHeader(i) ==
    i >= 1 /\ scanner.records[i].type \in {THEADR, LHEADR}

\* C23: the scanner warns about the placement of an Easy OMF marker exactly
\* when the marker is not the record directly after the THEADR or LHEADR of
\* its module.
C23_MarkerWarningIffMisplaced ==
    scanner.pc = "done" =>
        \A i \in 0..(Len(scanner.records) - 1) :
            IsEasyOmfMarker(i) =>
                ((\E w \in 1..Len(scanner.warnings) : scanner.warnings[w] = i)
                     <=> ~FollowsModuleHeader(i))

\* C24: the scan stops at the first LIBEND record: a LIBEND in the list of
\* records is its last record, the scan has returned, and the cursor stands
\* at the end of the LIBEND: no byte after it has become a record.
C24_ScanStopsAtLibend ==
    \A i \in 1..Len(scanner.records) :
        scanner.records[i].type = LIBEND =>
            /\ i = Len(scanner.records)
            /\ scanner.pc = "done"
            /\ scanner.offset = RecEnd(scanner.records[i])

\* A scan that returned at a LIBEND with whole records in the bytes after it.
C24_Witness ==
    /\ scanner.pc = "done"
    /\ scanner.records # << >>
    /\ LastRec.type = LIBEND
    /\ Len(chunks) = 3 /\ chunks[3] = 1
    /\ Len(scanner.data) >= RecEnd(LastRec) + 6

\* The module headers of the scan, as positions of the list of records.
ModuleHeaders ==
    {i \in 1..Len(scanner.records) : scanner.records[i].type \in {THEADR, LHEADR}}

C29_RecordsInOrderWithoutOverlap ==
    scanner.pc = "done" =>
        /\ \A i \in 1..(Len(scanner.records) - 1) :
               /\ scanner.records[i + 1].offset > scanner.records[i].offset
               /\ scanner.records[i + 1].offset >= RecEnd(scanner.records[i])
        /\ (scanner.data # << >> /\ scanner.data[1] # LIBHDR) =>
               /\ scanner.records # << >> => scanner.records[1].offset = 0
               /\ \A i \in 1..(Len(scanner.records) - 1) :
                      scanner.records[i + 1].offset = RecEnd(scanner.records[i])
        /\ (scanner.data # << >> /\ scanner.data[1] = LIBHDR) =>
               /\ \A i \in 1..Len(scanner.records) : scanner.records[i].type # 0
               /\ \A i \in 1..(Len(scanner.records) - 1) :
                      \A k \in (RecEnd(scanner.records[i]) + 1)..scanner.records[i + 1].offset :
                          scanner.data[k] = 0

\* The scan of a library has returned a record that comes after filler bytes.
C29_Witness ==
    /\ scanner.pc = "done"
    /\ scanner.is_library
    /\ \E i \in 1..(Len(scanner.records) - 1) :
           scanner.records[i + 1].offset > RecEnd(scanner.records[i])

-----------------------------------------------------------------------------
(* Specification of the tables of a module: files of module headers, name,  *)
(* segment, group, type and external records, whole, empty or with a field  *)
(* value outside its enumeration, and Phase 2 over them.                     *)

\* The number of records such a file is made of.
MaxTableChunks == 4

TableChunk(i) ==
    CASE i = 1 -> Good(THEADR, <<1, 65>>)
      [] i = 2 -> Good(LNAMES, <<0, 1, 71>>)
      [] i = 3 -> Good(SEGDEF, << >>)
      [] i = 4 -> Good(SEGDEF, <<40, 16, 0, 1, 1, 1>>)
      [] i = 5 -> Good(GRPDEF, <<1, SEGMENT_INDEX, 1>>)
      [] i = 6 -> Good(GRPDEF, << >>)
      [] i = 7 -> Good(TYPDEF, << >>)
      [] i = 8 -> Good(TYPDEF, <<0, 0, NEAR, 123, 16>>)
      [] i = 9 -> Good(TYPDEF, <<0, 0, NEAR, 1, 16>>)
      [] i = 10 -> Good(TYPDEF, <<0, 2, FAR, 119, 2, 1, 5>>)
      [] i = 11 -> Good(EXTDEF, <<1, 66, 0>>)
      [] i = 12 -> Rec(COMENT, <<0, EASY_OMF_CLASS>>, 0)
      [] i = 13 -> Good(SEGDEF32, <<192, 0, 0, 0, 0, 1, 1, 1, 2>>)

TableChunkIds == 1..13

TableFile(cs) == Concat([i \in 1..Len(cs) |-> TableChunk(cs[i])])

InitTables ==
    /\ chunks \in SeqsUpTo(TableChunkIds, MaxTableChunks)
    /\ scanner = ScanRun(ScannerInit(TableFile(chunks)))
    /\ omf = OMFFile(scanner)
    /\ sub = SubIdle
    /\ result = << >>
    /\ ri = 0
    /\ dispatched = << >>
    /\ pc = "dispatch"

ParseSegdef == Dispatch("handle_segdef") /\ Step(handle_segdef(omf, CurRecord))

ParseTypdef == Dispatch("handle_typdef") /\ Step(handle_typdef(omf, CurRecord))

NextTables ==
    \/ ParseTheadr \/ ParseComent
    \/ ParseLnames \/ IterLnames
    \/ ParseSegdef
    \/ ParseGrpdef \/ IterGrpdef
    \/ ParseTypdef
    \/ ParseExtdef \/ IterExtdef
    \/ ParseReturn

SpecTables == InitTables /\ [][NextTables]_vars

\* The records of the module Phase 2 is in that it is done with and whose
\* type is in types: those from the last module header before record ri on.
RecordsOfModule(types) ==
    LET headers == {i \in 1..ri : omf.records[i].type \in {THEADR, LHEADR}}
        first == IF headers = {} THEN 1 ELSE CHOOSE i \in headers : \A j \in headers : j <= i
    IN  {i \in first..ri : omf.records[i].type \in types}

\* C28: between two records of Phase 2, segdefs holds one entry after the
\* sentinel for each SEGDEF or SEGDEF32 record of the module decoded so far,
\* grpdefs one for each GRPDEF and typdefs one for each TYPDEF: the n-th
\* such record is at index n, whatever its content.
C28_OneEntryPerDefinitionRecord ==
    pc \in {"dispatch", "done"} =>
        /\ Len(omf.segdefs) = 1 + Cardinality(RecordsOfModule({SEGDEF, SEGDEF32}))
        /\ Len(omf.grpdefs) = 1 + Cardinality(RecordsOfModule({GRPDEF}))
        /\ Len(omf.typdefs) = 1 + Cardinality(RecordsOfModule({TYPDEF}))

\* Table before is the beginning of table after.
Extends(after, before) ==
    Len(before) <= Len(after) /\ SubSeq(after, 1, Len(before)) = before

\* The step of Phase 2 about to be taken decodes a module header.
AtModuleHeader ==
    pc = "dispatch" /\ ri < Len(omf.records) /\ CurRecord.type \in {THEADR, LHEADR}

\* The step about to be taken begins an LNAMES or LLNAMES record, or decodes
\* one more name of it.
AtLnames == pc = "dispatch" /\ ri < Len(omf.records) /\ CurHandler = Some("handle_lnames")
InLnames == pc = "loop" /\ CurHandler = Some("handle_lnames")

\* The five tables begin with the sentinel.
SentinelsInPlace ==
    /\ omf.lnames # << >> /\ omf.lnames[1] = Str_null
    /\ omf.segdefs # << >> /\ omf.segdefs[1] = Str_null
    /\ omf.grpdefs # << >> /\ omf.grpdefs[1] = Str_null
    /\ omf.extdefs # << >> /\ omf.extdefs[1] = Str_null
    /\ omf.typdefs # << >> /\ omf.typdefs[1] = Str_null

\* C30: all through Phase 2 each of the five tables has the sentinel at index
\* 0; a step that is not the decoding of a module header only appends to
\* them; an LNAMES or LLNAMES record reports as start_index the length of
\* lnames before it, and each of its names with the index it was appended at.
C30_TablesAreAppendOnly ==
    /\ []SentinelsInPlace
    /\ [][/\ ~AtModuleHeader =>
                /\ Extends(omf'.lnames, omf.lnames)
                /\ Extends(omf'.segdefs, omf.segdefs)
                /\ Extends(omf'.grpdefs, omf.grpdefs)
                /\ Extends(omf'.extdefs, omf.extdefs)
                /\ Extends(omf'.typdefs, omf.typdefs)
          /\ AtLnames => (result'.start_index = Len(omf.lnames) /\ result'.names = << >>)
          /\ InLnames =>
                /\ result'.start_index = result.start_index
                /\ Len(result'.names) = Len(result.names) + 1
                /\ Extends(result'.names, result.names)
                /\ result'.names[Len(result'.names)][1] = Len(omf.lnames)
                /\ result'.names[Len(result'.names)][1]
                       = result.start_index + Len(result.names)
                /\ omf'.lnames = Append(omf.lnames, result'.names[Len(result'.names)][2])
         ]_vars

\* Two modules with an LNAMES record each have been decoded: the names of
\* the second one are numbered from 1 again, in a table that was reset.
C30_Witness ==
    /\ pc = "done"
    /\ chunks = <<1, 2, 1, 2>>
    /\ result.start_index = 1
    /\ Len(result.names) = 2
    /\ result.names[2][1] = 2
    /\ Len(omf.lnames) = 3
====
